---------------------------- MODULE Spec2Model ----------------------------
(***************************************************************************)
(* A model of the Doncaster crime map dashboard: the Gemini service        *)
(* (src/services/geminiService.ts), the App component (src/App.tsx) and    *)
(* the CrimeMap component (src/components/CrimeMap.tsx).                    *)
(*                                                                         *)
(* The specifications of the module:                                       *)
(*   SpecBriefing  the proximity filter of generateIncidentBriefing and    *)
(*                 generateStopSearchBriefing applied to bounded inputs;   *)
(*   SpecJson      parseJsonResponse applied to bounded texts;             *)
(*   SpecFeatures, SpecLayers, SpecMap                                     *)
(*                 the event-driven application, each following a part of  *)
(*                 its events: the modal AI features, the heat map         *)
(*                 buttons, the popups and their briefing requests.        *)
(*                                                                         *)
(* Numbers.  Coordinates are integers in units of 1e-4 degree.  Angles are *)
(* fixed point, distances are integer millimetres.  TLC's integers are 32  *)
(* bits wide, so every product below is kept under 2^31.                   *)
(***************************************************************************)
EXTENDS Integers, Sequences, FiniteSets, TLC

VARIABLES
    \* ---- geminiService.ts
    ai,                 \* TRUE iff the GoogleGenAI client was built (API_KEY set)
    \* ---- inputs and result of one briefing call (SpecBriefing)
    allCrimes,          \* App state allCrimes / the allCrimes argument
    allStopSearches,    \* App state allStopSearches / the argument
    briefingCall,       \* what the last generate*Briefing call did
    \* ---- input and result of one parseJsonResponse call (SpecJson)
    jsonText,
    jsonResult,
    \* ---- App.tsx state
    filteredCrimes,
    crimeCategories,
    selectedCategory,
    selectedCrimeId,            \* <<>> for null, <<id>> otherwise
    selectedStopSearch,         \* <<>> for null, <<stopSearch>> otherwise
    isLoading,
    isDensityHeatmapVisible,
    isRecencyHeatmapVisible,
    isInsightsVisible,
    isPredictiveHotspotsVisible,
    insights,
    predictiveHotspots,
    modal,                      \* the state of modalReducer
    \* ---- asynchronous calls in flight
    fetches,                    \* fetchData calls waiting at an await
    aiCalls,                    \* handleAIFeature calls waiting for the LLM
    briefings,                  \* popupopen handlers waiting for the LLM
    issued,                     \* how many of each were started, and how
                                \* many generateContent requests were sent
    \* ---- CrimeMap.tsx: Leaflet layers and refs
    crimeMarkers,
    densityHeatLayer,
    recencyHeatLayer,
    insightsLayer,
    predictiveHotspotLayer,
    stopSearchCircle,
    briefingCache,              \* briefingCacheRef: a function key -> html
    interval,                   \* the timer of the mount effect is set
    crimeSortConfig,            \* the sort of the crime table
    stopSearchSortConfig,       \* the sort of the stop-and-search table
    briefingSubject,            \* history: key -> the incident its cached text was generated for
    briefingLoading             \* briefingLoadingRef: a set of keys

-----------------------------------------------------------------------------
(* Bounds of the model *)

\* The longest list of candidates handed to a briefing call.
MaxLen == 6

\* The most objects in a JSON array answered by the LLM.
MaxObjects == 5

\* The longest text taken from every sequence over the alphabet.
MaxTextLen == 3

\* The most fetchData calls started after the one of the mount effect.
MaxFetches == 2

\* The most handleAIFeature calls that wait for the LLM.
MaxAICalls == 2

\* The most briefing requests sent to the LLM.
MaxBriefings == 3

-----------------------------------------------------------------------------
(* JavaScript numbers and strings, as far as the code uses them *)

\* A JavaScript number: NaN or an integer (1e-4 degree for coordinates).
NaN == [nan |-> TRUE, v |-> 0]

Num(v) == [nan |-> FALSE, v |-> v]

isNaN(x) == x.nan

\* A coordinate string as the police API may deliver it:
\*   "num"      a decimal number            "53.5230"
\*   "numjunk"  a number followed by junk   "53.5230abc"
\*   "junk"     no leading number           "abc"
\*   "empty"    the empty string            ""
\*   "missing"  undefined / null
CoordKinds == {"num", "numjunk", "junk", "empty", "missing"}

Str(kind, v) == [kind |-> kind, v |-> v]

\* parseFloat reads the longest numeric prefix; NaN when there is none.
parseFloat(s) ==
    IF s.kind \in {"num", "numjunk"} THEN Num(s.v) ELSE NaN

\* JavaScript truthiness of a string-or-undefined value: `!x` is true for
\* undefined, null and "".
Truthy(s) == s.kind \notin {"empty", "missing"}

-----------------------------------------------------------------------------
(* moment.js values: local time, to the resolution of a tick of the day *)

TicksPerDay == 3

IsLeapYear(y) == (y % 4 = 0 /\ y % 100 # 0) \/ y % 400 = 0

\* ym counts months from year 0: ym = 12 * year + (month - 1).
DaysInMonth(ym) ==
    LET mon == (ym % 12) + 1
        y   == ym \div 12
    IN  IF mon = 2 THEN (IF IsLeapYear(y) THEN 29 ELSE 28)
        ELSE IF mon \in {4, 6, 9, 11} THEN 30 ELSE 31

\* moment("YYYY-MM") and moment(month, 'YYYY-MM'): the start of that month.
MomentOfMonth(month) ==
    [ym |-> 12 * month.year + (month.month - 1), date |-> 1, tod |-> 0]

\* moment(datetime) of an ISO date-time string.
MomentOfDatetime(dt) ==
    [ym |-> 12 * dt.year + (dt.month - 1), date |-> dt.day, tod |-> dt.tod]

\* m.clone().add(n, 'month') / subtract: the month moves, the day of the
\* month is clamped to the length of the target month, the time is kept.
AddMonths(m, n) ==
    LET ym2 == m.ym + n
    IN  [ym |-> ym2,
         date |-> IF m.date > DaysInMonth(ym2) THEN DaysInMonth(ym2) ELSE m.date,
         tod |-> m.tod]

\* moment#valueOf, up to a monotone rescaling.
ValueOf(m) == (m.ym * 32 + m.date) * TicksPerDay + m.tod

\* Mutant of isBetween: moment's default inclusivity '()', both ends exclusive.
isBetween_Exclusive(x, from, to) == ValueOf(from) < ValueOf(x) /\ ValueOf(x) < ValueOf(to)

\* x.isBetween(from, to, undefined, '[]'): both ends inclusive.
isBetween(x, from, to) == ValueOf(from) <= ValueOf(x) /\ ValueOf(x) <= ValueOf(to)

\* moment(...).format('MMMM YYYY') / 'YYYY-MM-DD HH:mm'
FormatMonth(m) == [year |-> m.ym \div 12, month |-> (m.ym % 12) + 1]

FormatDatetime(m) ==
    [year |-> m.ym \div 12, month |-> (m.ym % 12) + 1, day |-> m.date, tod |-> m.tod]

-----------------------------------------------------------------------------
(* haversineDistance (geminiService.ts 31-38) in fixed point.               *)
(* Against the double-precision function the result differs by less than   *)
(* half a metre on every pair of points of CoordPoints below, and the      *)
(* comparison with the 250 m radius agrees on every pair.                   *)

\* floor(sqrt(n)) by bisection.
RECURSIVE SqrtBisect(_, _, _)
SqrtBisect(n, lo, hi) ==
    IF hi - lo <= 1 THEN lo
    ELSE LET mid == (lo + hi) \div 2
         IN  IF mid * mid <= n THEN SqrtBisect(n, mid, hi) ELSE SqrtBisect(n, lo, mid)

Sqrt(n) == SqrtBisect(n, 0, 46341)

\* (deg * Math.PI / 180) for a difference of coordinates: 1e-4 degree in,
\* 1e-8 radian out.
DiffToRadians(d) == (d * 174533) \div 1000

\* Math.sin(x / 2) for |x| < 1e-3 rad, in 1e-8 rad: Math.sin(x / 2) is x / 2 to 1e-10.
SinHalf(x) == x \div 2

\* Math.cos(lat * Math.PI / 180), scaled by 10^4: the Taylor series to x^6.
Cos(lat) ==
    LET x  == ((lat \div 4) * 6981) \div 100000      \* radians * 10^4
        x2 == (x * x) \div 10000
        x4 == (x2 * x2) \div 10000
        x6 == (x4 * x2) \div 10000
    IN  10000 - (x2 \div 2) + (x4 \div 24) - (x6 \div 720)

\* Radius of Earth: 6371 km.
R == 6371

\* The distance in millimetres.  a is scaled by 10^16; for a this small
\* Math.sqrt(1 - a) is 1 and Math.atan2(y, 1) is y, so c = 2 * sqrt(a).
haversineDistance(lat1, lon1, lat2, lon2) ==
    LET dLat == DiffToRadians(lat2 - lat1)
        dLon == DiffToRadians(lon2 - lon1)
        cosProduct == (Cos(lat1) * Cos(lat2)) \div 10000
        a == SinHalf(dLat) * SinHalf(dLat)
             + (((SinHalf(dLon) * SinHalf(dLon)) \div 1000) * cosProduct) \div 10
        c == 2 * Sqrt(a)
    IN  (R * c) \div 100

\* const proximityRadiusKm = 0.25, in millimetres.
proximityRadiusKm == 250000

\* slice(0, 5): the number of nearby records of a kind quoted in the prompt.
PromptSample == 5

-----------------------------------------------------------------------------
(* Records of the police API *)

NoLocation == [present |-> FALSE, latitude |-> Str("missing", 0),
               longitude |-> Str("missing", 0), street |-> "none"]

Location(lat, lon, street) ==
    [present |-> TRUE, latitude |-> lat, longitude |-> lon, street |-> street]

\* c.location?.latitude and c.location?.longitude
OptLatitude(rec) ==
    IF rec.location.present THEN rec.location.latitude ELSE Str("missing", 0)

OptLongitude(rec) ==
    IF rec.location.present THEN rec.location.longitude ELSE Str("missing", 0)

\* c.location?.street?.name ?? 'Unknown Street'
StreetOrUnknown(rec) ==
    IF rec.location.present /\ rec.location.street # "none"
    THEN rec.location.street ELSE "Unknown Street"

-----------------------------------------------------------------------------
(* generateIncidentBriefing and generateStopSearchBriefing *)

UnavailableMessage == "AI service is not available (API key missing)."

InvalidLocationMessage == "Briefing not available due to invalid location data."

NoLocationMessage == "Briefing not available: no location data for this incident."

\* Mutant of Slice: slice(-n), the last n elements.
Slice_Tail(seq, n) ==
    SubSeq(seq, (IF Len(seq) < n THEN 1 ELSE Len(seq) - n + 1), Len(seq))

\* Array.prototype.slice(0, n)
Slice(seq, n) == SubSeq(seq, 1, IF Len(seq) < n THEN Len(seq) ELSE n)

\* Array.prototype.map
Map(seq, f(_)) == [i \in 1..Len(seq) |-> f(seq[i])]

\* .map(c => ({type, date, street})) of a nearby crime
PromptCrime(c) ==
    [type |-> c.category, date |-> FormatMonth(MomentOfMonth(c.month)),
     street |-> StreetOrUnknown(c)]

\* .map(ss => ({type, date, objectOfSearch, street})) of a nearby stop and search
PromptStopSearch(ss) ==
    [type |-> ss.type, date |-> FormatDatetime(MomentOfDatetime(ss.datetime)),
     street |-> StreetOrUnknown(ss)]

\* Mutant of IncidentCrimeFilter: the distance test is left out.
IncidentCrimeFilter_NoRadius(crimeLat, crimeLng, oneMonthBefore, oneMonthAfter, c) ==
    IF ~Truthy(OptLatitude(c)) \/ ~Truthy(OptLongitude(c)) THEN FALSE
    ELSE LET cLat == parseFloat(c.location.latitude)
             cLng == parseFloat(c.location.longitude)
         IN  IF isNaN(cLat) \/ isNaN(cLng) THEN FALSE
             ELSE isBetween(MomentOfMonth(c.month), oneMonthBefore, oneMonthAfter)

\* The callback of allCrimes.filter in generateIncidentBriefing (58-65).
IncidentCrimeFilter(crimeLat, crimeLng, oneMonthBefore, oneMonthAfter, c) ==
    IF ~Truthy(OptLatitude(c)) \/ ~Truthy(OptLongitude(c)) THEN FALSE
    ELSE LET cLat == parseFloat(c.location.latitude)
             cLng == parseFloat(c.location.longitude)
         IN  IF isNaN(cLat) \/ isNaN(cLng) THEN FALSE
             ELSE LET crimeMoment == MomentOfMonth(c.month)
                  IN  /\ haversineDistance(crimeLat.v, crimeLng.v, cLat.v, cLng.v)
                            <= proximityRadiusKm
                      /\ isBetween(crimeMoment, oneMonthBefore, oneMonthAfter)

\* Mutant of IncidentStopSearchFilter: the window is taken without its ends.
IncidentStopSearchFilter_ExclusiveEnds(crimeLat, crimeLng, oneMonthBefore, oneMonthAfter, ss) ==
    IF ~Truthy(OptLatitude(ss)) \/ ~Truthy(OptLongitude(ss)) THEN FALSE
    ELSE LET ssLat == parseFloat(ss.location.latitude)
             ssLng == parseFloat(ss.location.longitude)
         IN  IF isNaN(ssLat) \/ isNaN(ssLng) THEN FALSE
             ELSE LET ssMoment == MomentOfDatetime(ss.datetime)
                  IN  /\ haversineDistance(crimeLat.v, crimeLng.v, ssLat.v, ssLng.v)
                            <= proximityRadiusKm
                      /\ ValueOf(oneMonthBefore) < ValueOf(ssMoment)
                      /\ ValueOf(ssMoment) < ValueOf(oneMonthAfter)

\* The callback of allStopSearches.filter in generateIncidentBriefing (72-79).
IncidentStopSearchFilter(crimeLat, crimeLng, oneMonthBefore, oneMonthAfter, ss) ==
    IF ~Truthy(OptLatitude(ss)) \/ ~Truthy(OptLongitude(ss)) THEN FALSE
    ELSE LET ssLat == parseFloat(ss.location.latitude)
             ssLng == parseFloat(ss.location.longitude)
         IN  IF isNaN(ssLat) \/ isNaN(ssLng) THEN FALSE
             ELSE LET ssMoment == MomentOfDatetime(ss.datetime)
                  IN  /\ haversineDistance(crimeLat.v, crimeLng.v, ssLat.v, ssLng.v)
                            <= proximityRadiusKm
                      /\ isBetween(ssMoment, oneMonthBefore, oneMonthAfter)

\* Mutant of StopSearchCrimeFilter: a coordinate that does not parse is
\* replaced by the map centre instead of excluding the record.
StopSearchCrimeFilter_DefaultCoords(incidentLat, incidentLng, oneMonthBefore, oneMonthAfter, c) ==
    LET cLat == IF isNaN(parseFloat(OptLatitude(c)))
                THEN Num(535228) ELSE parseFloat(OptLatitude(c))
        cLng == IF isNaN(parseFloat(OptLongitude(c)))
                THEN Num(-11285) ELSE parseFloat(OptLongitude(c))
    IN  /\ haversineDistance(incidentLat.v, incidentLng.v, cLat.v, cLng.v)
              <= proximityRadiusKm
        /\ isBetween(MomentOfMonth(c.month), oneMonthBefore, oneMonthAfter)

\* The callback of allCrimes.filter in generateStopSearchBriefing (131-138).
StopSearchCrimeFilter(incidentLat, incidentLng, oneMonthBefore, oneMonthAfter, c) ==
    IF ~Truthy(OptLatitude(c)) \/ ~Truthy(OptLongitude(c)) THEN FALSE
    ELSE LET cLat == parseFloat(c.location.latitude)
             cLng == parseFloat(c.location.longitude)
         IN  IF isNaN(cLat) \/ isNaN(cLng) THEN FALSE
             ELSE LET crimeMoment == MomentOfMonth(c.month)
                  IN  /\ haversineDistance(incidentLat.v, incidentLng.v, cLat.v, cLng.v)
                            <= proximityRadiusKm
                      /\ isBetween(crimeMoment, oneMonthBefore, oneMonthAfter)

\* What a briefing call did.  kind is
\*   "static"  it returned `text` without a request to the LLM,
\*   "throws"  it threw (the returned promise rejects),
\*   "llm"     it built the prompt and called ai.models.generateContent.
\* nearby* are the records the filters kept (before .map); prompt* is what
\* the prompt quotes.
Call(fn, kind, text, subject, window, nCrimes, nStops, pCrimes, pStops) ==
    [fn |-> fn, kind |-> kind, text |-> text, subject |-> subject, window |-> window,
     nearbyCrimes |-> nCrimes, nearbyStopSearches |-> nStops,
     promptCrimes |-> pCrimes, promptStopSearches |-> pStops]

NoWindow == <<>>

NoCall == Call("none", "none", "", <<>>, NoWindow, <<>>, <<>>, <<>>, <<>>)

ReturnsText(fn, subject, text) ==
    Call(fn, "static", text, subject, NoWindow, <<>>, <<>>, <<>>, <<>>)

Throws(fn, subject) ==
    Call(fn, "throws", "TypeError", subject, NoWindow, <<>>, <<>>, <<>>, <<>>)

generateIncidentBriefing(crime, crimes, stopSearches) ==
    IF ~ai THEN ReturnsText("incident", crime, UnavailableMessage)
    ELSE IF ~crime.location.present THEN Throws("incident", crime)
    ELSE
    LET crimeLat == parseFloat(crime.location.latitude)
        crimeLng == parseFloat(crime.location.longitude)
    IN  IF isNaN(crimeLat) \/ isNaN(crimeLng)
        THEN ReturnsText("incident", crime, InvalidLocationMessage)
        ELSE
        LET targetMoment   == MomentOfMonth(crime.month)
            oneMonthBefore == AddMonths(targetMoment, -1)
            oneMonthAfter  == AddMonths(targetMoment, 1)
            nearbyCrimes ==
                SelectSeq(crimes, LAMBDA c :
                    IncidentCrimeFilter(crimeLat, crimeLng, oneMonthBefore, oneMonthAfter, c))
            nearbyStopSearches ==
                SelectSeq(stopSearches, LAMBDA ss :
                    IncidentStopSearchFilter(crimeLat, crimeLng, oneMonthBefore, oneMonthAfter, ss))
        IN  Call("incident", "llm", "", crime, <<oneMonthBefore, oneMonthAfter>>,
                 nearbyCrimes, nearbyStopSearches,
                 Slice(Map(nearbyCrimes, PromptCrime), PromptSample),
                 Slice(Map(nearbyStopSearches, PromptStopSearch), PromptSample))

generateStopSearchBriefing(stopSearch, crimes, stopSearches) ==
    IF ~ai THEN ReturnsText("stopSearch", stopSearch, UnavailableMessage)
    ELSE IF ~stopSearch.location.present
    THEN ReturnsText("stopSearch", stopSearch, NoLocationMessage)
    ELSE
    LET incidentLat == parseFloat(stopSearch.location.latitude)
        incidentLng == parseFloat(stopSearch.location.longitude)
    IN  IF isNaN(incidentLat) \/ isNaN(incidentLng)
        THEN ReturnsText("stopSearch", stopSearch, InvalidLocationMessage)
        ELSE
        LET targetMoment   == MomentOfDatetime(stopSearch.datetime)
            oneMonthBefore == AddMonths(targetMoment, -1)
            oneMonthAfter  == AddMonths(targetMoment, 1)
            nearbyCrimes ==
                SelectSeq(crimes, LAMBDA c :
                    StopSearchCrimeFilter(incidentLat, incidentLng, oneMonthBefore, oneMonthAfter, c))
        IN  Call("stopSearch", "llm", "", stopSearch, <<oneMonthBefore, oneMonthAfter>>,
                 nearbyCrimes, <<>>,
                 Slice(Map(nearbyCrimes, PromptCrime), PromptSample), <<>>)

-----------------------------------------------------------------------------
(* parseJsonResponse (geminiService.ts 16-29).                               *)
(* A text is a sequence of characters of the alphabet below.  "w" is a word *)
(* character (\w), " " and "\n" are white space (\s), "{}" stands for one   *)
(* JSON object literal, a character that is neither \w nor \s, and "tick"  *)
(* is the backquote.                                                        *)

Alphabet == {"tick", "w", " ", "\n", "[", "]", ",", "{}"}

IsWord(ch) == ch = "w"

IsSpace(ch) == ch \in {" ", "\n"}

\* String.prototype.trim
RECURSIVE TrimStart(_)
TrimStart(str) ==
    IF str # <<>> /\ IsSpace(Head(str)) THEN TrimStart(Tail(str)) ELSE str

RECURSIVE TrimEnd(_)
TrimEnd(str) ==
    IF str # <<>> /\ IsSpace(str[Len(str)])
    THEN TrimEnd(SubSeq(str, 1, Len(str) - 1)) ELSE str

Trim(str) == TrimEnd(TrimStart(str))

BackTicks == <<"tick", "tick", "tick">>

\* The ways /^```(\w*)?\s*\n?(.*?)\n?\s*```$/s matches str: <<i, j, q, k>> with
\* i characters taken by \w*, j by the first \s*, q by the first \n? and k by
\* the group (.*?); what is left before the closing ``` must match \n?\s*.
FenceMatches(str) ==
    LET n == Len(str)
    IN  IF n < 6 \/ SubSeq(str, 1, 3) # BackTicks \/ SubSeq(str, n - 2, n) # BackTicks
        THEN {}
        ELSE { m \in (0..(n - 6)) \X (0..(n - 6)) \X {0, 1} \X (0..(n - 6)) :
                 /\ m[1] + m[2] + m[3] + m[4] <= n - 6
                 /\ \A p \in 4..(3 + m[1]) : IsWord(str[p])
                 /\ \A p \in (4 + m[1])..(3 + m[1] + m[2]) : IsSpace(str[p])
                 /\ m[3] = 1 => str[4 + m[1] + m[2]] = "\n"
                 /\ \A p \in (4 + m[1] + m[2] + m[3] + m[4])..(n - 3) : IsSpace(str[p]) }

\* The order in which the backtracking matcher tries them: \w*, \s* and \n?
\* are greedy (longest first), (.*?) is lazy (shortest first).
TriedBefore(a, b) ==
    \/ a[1] > b[1]
    \/ a[1] = b[1] /\ a[2] > b[2]
    \/ a[1] = b[1] /\ a[2] = b[2] /\ a[3] > b[3]
    \/ a[1] = b[1] /\ a[2] = b[2] /\ a[3] = b[3] /\ a[4] < b[4]

\* str.match(fenceRegex): null, or the match with its group 2.
FenceMatch(str) ==
    LET ms == FenceMatches(str)
    IN  IF ms = {} THEN [matched |-> FALSE, group2 |-> <<>>]
        ELSE LET m == CHOOSE a \in ms : \A b \in ms : a = b \/ TriedBefore(a, b)
                 from == 4 + m[1] + m[2] + m[3]
             IN  [matched |-> TRUE, group2 |-> SubSeq(str, from, from + m[4] - 1)]

\* The items of a JSON array after "[": objects separated by commas, with
\* optional white space.  The number of items, or -1 for a syntax error.
RECURSIVE ParseItems(_)
ParseItems(str) ==
    IF str = <<>> \/ Head(str) # "{}" THEN -1
    ELSE LET rest == TrimStart(Tail(str))
         IN  IF rest = <<>> THEN 1
             ELSE IF Head(rest) # "," THEN -1
             ELSE LET more == ParseItems(TrimStart(Tail(rest)))
                  IN  IF more < 0 THEN -1 ELSE more + 1

ParseFailureMessage == "Failed to parse AI response as JSON."

Parsed(kind, n) ==
    [ok |-> TRUE, kind |-> kind, items |-> [i \in 1..n |-> "object"], message |-> ""]

\* No call yet.
NotParsed == [ok |-> FALSE, kind |-> "none", items |-> <<>>, message |-> ""]

ParseFailure ==
    [ok |-> FALSE, kind |-> "error", items |-> <<>>, message |-> ParseFailureMessage]

\* JSON.parse on the alphabet: an object, or an array of objects.
JSONparse(str) ==
    LET t == Trim(str)
    IN  IF t = <<"{}">> THEN Parsed("object", 0)
        ELSE IF Len(t) >= 2 /\ t[1] = "[" /\ t[Len(t)] = "]"
        THEN LET inner == Trim(SubSeq(t, 2, Len(t) - 1))
                 count == IF inner = <<>> THEN 0 ELSE ParseItems(inner)
             IN  IF count < 0 THEN ParseFailure ELSE Parsed("array", count)
        ELSE ParseFailure

\* Mutant of parseJsonResponse: the fence is stripped only when it carries a
\* language tag (the regex with (\w+) for (\w*)?).
parseJsonResponse_TagRequired(text) ==
    LET trimmed == Trim(text)
        match   == FenceMatch(trimmed)
        jsonStr == IF match.matched /\ match.group2 # <<>>
                      /\ Len(trimmed) > 3 /\ IsWord(trimmed[4])
                   THEN Trim(match.group2) ELSE trimmed
    IN  JSONparse(jsonStr)

\* The result: the parsed value, or the Error thrown.
parseJsonResponse(text) ==
    LET trimmed == Trim(text)
        match   == FenceMatch(trimmed)
        jsonStr == IF match.matched /\ match.group2 # <<>>
                   THEN Trim(match.group2) ELSE trimmed
    IN  JSONparse(jsonStr)

-----------------------------------------------------------------------------
(* Bounded inputs *)

\* Points around the map centre (53.5228, -1.1285), in 1e-4 degree:
\*   Centre   the reference point of the example of the specification
\*   Near     (53.5230, -1.1286)   23 m from Centre
\*   Far      (53.5300, -1.1400)   1.1 km
\*   EdgeIn   22 units north        244.6 m
\*   EdgeOut  23 units north        255.7 m
Centre  == <<535228, -11285>>

Near    == <<535230, -11286>>

Far     == <<535300, -11400>>

EdgeIn  == <<535250, -11285>>

EdgeOut == <<535251, -11285>>

CoordPoints == {Centre, Near, Far, EdgeIn, EdgeOut}

At(p, street) == Location(Str("num", p[1]), Str("num", p[2]), street)

Month(y, m) == [year |-> y, month |-> m]

Datetime(y, m, d, t) == [year |-> y, month |-> m, day |-> d, tod |-> t]

Crime(id, category, month, location) ==
    [id |-> id, category |-> category, month |-> month, location |-> location]

StopSearch(id, datetime, location) ==
    [id |-> id, type |-> "Person search", datetime |-> datetime, location |-> location]

CrimeUniverse ==
    { Crime(1,  "burglary", Month(2024, 5), At(Centre, "c1")),
      Crime(2,  "burglary", Month(2024, 6), At(Near, "c2")),
      Crime(3,  "robbery",  Month(2024, 6), At(Far, "c3")),
      Crime(4,  "robbery",  Month(2024, 1), At(Near, "c4")),
      Crime(5,  "burglary", Month(2024, 4), At(EdgeIn, "c5")),
      Crime(6,  "robbery",  Month(2024, 5), At(EdgeOut, "c6")),
      Crime(7,  "burglary", Month(2024, 5),
                Location(Str("junk", 0), Str("num", Near[2]), "c7")),
      Crime(8,  "burglary", Month(2024, 5),
                Location(Str("num", Near[1]), Str("empty", 0), "c8")),
      Crime(9,  "robbery",  Month(2024, 5), NoLocation),
      Crime(10, "robbery",  Month(2024, 5),
                Location(Str("numjunk", Near[1]), Str("num", Near[2]), "none")),
      Crime(11, "burglary", Month(2024, 7), At(Near, "c11")),
      Crime(12, "burglary", Month(2024, 3), At(EdgeIn, "c12")),
      Crime(13, "robbery",  Month(2024, 2), At(Near, "c13")) }

StopSearchUniverse ==
    { StopSearch(1, Datetime(2024, 5, 15, 1), At(Near, "s1")),
      StopSearch(2, Datetime(2024, 6, 1, 0),  At(Near, "s2")),
      StopSearch(3, Datetime(2024, 6, 1, 1),  At(Near, "s3")),
      StopSearch(4, Datetime(2024, 5, 15, 1), At(Far, "s4")),
      StopSearch(5, Datetime(2024, 5, 15, 1),
                 Location(Str("junk", 0), Str("junk", 0), "s5")),
      StopSearch(6, Datetime(2024, 5, 15, 1), NoLocation),
      StopSearch(7, Datetime(2024, 3, 31, 1), At(Centre, "s7")),
      StopSearch(8, Datetime(2024, 4, 1, 0),  At(Near, "s8")),
      StopSearch(9, Datetime(2024, 3, 31, 2), At(EdgeIn, "s9")) }

\* The first n elements of base repeated: Cycle(<<x, y>>, 5) = <<x, y, x, y, x>>.
Cycle(base, n) == [i \in 1..n |-> base[((i - 1) % Len(base)) + 1]]

\* Every list of at most two records, and those lists continued in rotation
\* up to MaxLen.
ListsOver(U) == { Cycle(<<x, y>>, n) : x \in U, y \in U, n \in 0..MaxLen }

\* The candidate lists of a call: every list of one kind with a fixed list
\* of the other.
FixedCrimes ==
    << Crime(2, "burglary", Month(2024, 6), At(Near, "c2")),
       Crime(13, "robbery", Month(2024, 2), At(Near, "c13")) >>

FixedStopSearches ==
    << StopSearch(2, Datetime(2024, 6, 1, 0), At(Near, "s2")),
       StopSearch(3, Datetime(2024, 6, 1, 1), At(Near, "s3")) >>

BriefingInputs ==
    { <<cs, FixedStopSearches>> : cs \in ListsOver(CrimeUniverse) }
    \cup
    { <<FixedCrimes, ss>> : ss \in ListsOver(StopSearchUniverse) }

\* The incidents a briefing is asked for: one at the centre, one at the edge
\* in another month, one with a bad latitude, one without a location; a stop
\* and search in mid-May, one on 31 March, one with bad coordinates, one
\* without a location.
IncidentSubjects == { c \in CrimeUniverse : c.id \in {1, 5, 7, 9} }

StopSearchSubjects == { ss \in StopSearchUniverse : ss.id \in {1, 5, 6, 7} }

-----------------------------------------------------------------------------
(* App.tsx: the modal reducer and handleAIFeature's results *)

\* A text is a sequence of tokens: "\n" is a line break, any other token a
\* run of characters without one.  A message of the code is a text of one
\* token.
\* What a modal shows (a React node): kind says how it is rendered,
\*   "empty"     ''
\*   "summary"   the <div> with the summary's HTML
\*   "list"      the <ul> with one <li> per insight or hotspot
\*   "text"      a plain string
\*   "error"     the red <div> with an error's message.
Content(kind, text, items) == [kind |-> kind, text |-> text, items |-> items]

NoContent == Content("empty", <<>>, <<>>)

ModalKeys == {"briefing", "trend", "insights", "predictive"}

initialModalState ==
    [modal |-> [k \in ModalKeys |-> FALSE], content |-> NoContent, isLoading |-> FALSE]

OpenModalAction(key) == [type |-> "OPEN_MODAL", modal |-> key]

CloseModalAction == [type |-> "CLOSE_MODAL"]

SetContentAction(content) == [type |-> "SET_CONTENT", payload |-> content]

\* Mutant of modalReducer: OPEN_MODAL leaves the other flags as they are.
modalReducer_KeepFlags(state, action) ==
    CASE action.type = "OPEN_MODAL" ->
            [state EXCEPT !.modal = [k \in ModalKeys |-> k = action.modal \/ state.modal[k]],
                          !.isLoading = TRUE,
                          !.content = NoContent]
      [] action.type = "CLOSE_MODAL" ->
            [state EXCEPT !.modal = initialModalState.modal]
      [] action.type = "SET_LOADING" ->
            [state EXCEPT !.isLoading = action.payload]
      [] action.type = "SET_CONTENT" ->
            [state EXCEPT !.content = action.payload, !.isLoading = FALSE]
      [] OTHER -> state

modalReducer(state, action) ==
    CASE action.type = "OPEN_MODAL" ->
            [state EXCEPT !.modal = [k \in ModalKeys |-> k = action.modal],
                          !.isLoading = TRUE,
                          !.content = NoContent]
      [] action.type = "CLOSE_MODAL" ->
            [state EXCEPT !.modal = initialModalState.modal]
      [] action.type = "SET_LOADING" ->
            [state EXCEPT !.isLoading = action.payload]
      [] action.type = "SET_CONTENT" ->
            [state EXCEPT !.content = action.payload, !.isLoading = FALSE]
      [] OTHER -> state

NoDataMessage == "No crime data available to summarize."

NoInsightsMessage == "No insights could be generated from the current data."

NoHotspotsMessage == "No predictive hotspots could be generated."

\* The message of the Error a failed generateContent request rejects with.
RequestFailedMessage == "request failed"

\* text.replace(/\n/g, '<br/>')
ReplaceNewlines(text) ==
    [i \in 1..Len(text) |-> IF text[i] = "\n" THEN "<br/>" ELSE text[i]]

\* onSuccess of handleSummarizeTrends
SummaryContent(summary) == Content("summary", ReplaceNewlines(summary), <<>>)

\* What onSuccess of handleGenerateInsights returns
InsightsContent(insightData) ==
    IF Len(insightData) > 0 THEN Content("list", <<>>, insightData)
    ELSE Content("text", <<NoInsightsMessage>>, <<>>)

\* What onSuccess of handleGeneratePredictiveHotspots returns
HotspotsContent(hotspotData) ==
    IF Len(hotspotData) > 0 THEN Content("list", <<>>, hotspotData)
    ELSE Content("text", <<NoHotspotsMessage>>, <<>>)

\* The catch branch of handleAIFeature
ErrorContent(message) == Content("error", <<message>>, <<>>)

\* generatePredictiveHotspots answers [] for fewer crimes than this.
MinHotspotCrimes == 10

\* What a service function does before its first await: it returns a value
\* ("static") or sends a generateContent request ("llm").
Returns(value) == [kind |-> "static", value |-> value]

Requests == [kind |-> "llm", value |-> <<>>]

summarizeCrimeTrends(crimes) ==
    IF ~ai THEN Returns(<<UnavailableMessage>>)
    ELSE IF Len(crimes) = 0 THEN Returns(<<NoDataMessage>>)
    ELSE Requests

generateCrimeInsights(crimes) ==
    IF ~ai THEN Returns(<<>>)
    ELSE IF Len(crimes) = 0 THEN Returns(<<>>)
    ELSE Requests

generatePredictiveHotspots(crimes) ==
    IF ~ai THEN Returns(<<>>)
    ELSE IF Len(crimes) < MinHotspotCrimes THEN Returns(<<>>)
    ELSE Requests

-----------------------------------------------------------------------------
(* CrimeMap.tsx: what the effects put on the map *)

\* The briefing part of a popup: the spinner, a briefing, or the error.
loadingBriefingContent == [kind |-> "loading", html |-> <<>>]

BriefingHtml(html) == [kind |-> "briefing", html |-> html]

FailedBriefingContent == [kind |-> "error", html |-> <<"Failed to load briefing.">>]

\* crime.persistent_id || String(crime.id): a record without the field
\* stands for a crime whose persistent_id is empty.  Persistent ids are
\* numbers that no id has.
CrimeId(crime) ==
    IF "persistent_id" \in DOMAIN crime THEN crime.persistent_id ELSE crime.id

\* Mutant of CrimeCacheKey: the key `crime-` without the id.
CrimeCacheKey_Shared(crime) == <<"crime", 0, 0, 0>>

\* `crime-${crime.id}`
CrimeCacheKey(crime) == <<"crime", crime.id, 0, 0>>

\* `ss-${selectedStopSearch.datetime}-${lat}-${lng}`
StopSearchCacheKey(stopSearch, lat, lng) ==
    <<"ss", ValueOf(MomentOfDatetime(stopSearch.datetime)), lat.v, lng.v>>

\* The crime markers effect: one marker per crime whose coordinates parse,
\* each with a closed popup that shows the spinner.
CrimeMarker(crime) ==
    [crimeId |-> CrimeId(crime),
     lat |-> parseFloat(crime.location.latitude),
     lng |-> parseFloat(crime.location.longitude),
     crime |-> crime,
     popup |-> loadingBriefingContent,
     opened |-> FALSE]

HasPosition(crime) ==
    ~(isNaN(parseFloat(crime.location.latitude))
        \/ isNaN(parseFloat(crime.location.longitude)))

CrimeMarkers_NoSkip(crimes) == Map(crimes, CrimeMarker)

CrimeMarkers(crimes) == Map(SelectSeq(crimes, HasPosition), CrimeMarker)

\* The heat map effect.  A heat layer ref is null (exists = FALSE) or holds
\* the last layer built, which is on the map or was removed from it; the
\* points of a removed layer are not kept.
NoHeatLayer == [exists |-> FALSE, onMap |-> FALSE, data |-> <<>>]

HeatLayer(heatData) == [exists |-> TRUE, onMap |-> TRUE, data |-> heatData]

\* Mutant of RemoveLayer: the layer stays on the map.
RemoveLayer_Kept(layer) == layer

RemoveLayer(layer) == [layer EXCEPT !.onMap = FALSE, !.data = <<>>]

HeatPoint(kind, c) ==
    [lat |-> parseFloat(c.location.latitude),
     lng |-> parseFloat(c.location.longitude),
     intensity |-> kind]

HeatData(kind, crimes) ==
    SelectSeq([i \in 1..Len(crimes) |-> HeatPoint(kind, crimes[i])],
              LAMBDA p : ~isNaN(p.lat) /\ ~isNaN(p.lng))

DensityHeatLayer(old, crimes, density) ==
    IF density /\ Len(HeatData("density", crimes)) > 0
    THEN HeatLayer(HeatData("density", crimes))
    ELSE RemoveLayer(old)

RecencyHeatLayer(old, crimes, density, recency) ==
    IF ~density /\ recency /\ Len(HeatData("recency", crimes)) > 0
    THEN HeatLayer(HeatData("recency", crimes))
    ELSE RemoveLayer(old)

\* street.toLowerCase().includes(area.toLowerCase()) on the names of this
\* model: an area is found in itself, "" in every street, and a street in the
\* names listed here.
PartOf == { <<"High", "High Street">>, <<"high street", "High Street">> }

Includes(street, area) == area = "" \/ area = street \/ <<area, street>> \in PartOf

\* crimes.find(...)
RECURSIVE Find(_, _)
Find(crimes, area) ==
    IF crimes = <<>> THEN <<>>
    ELSE IF Includes(Head(crimes).location.street, area) THEN <<Head(crimes)>>
    ELSE Find(Tail(crimes), area)

\* The centre of the map, the position of an insight without a crime.
DefaultLat == 535228

DefaultLng == -11285

InsightMarker(crimes, insight) ==
    LET relevantCrime == Find(crimes, insight.area)
    IN  [area |-> insight.area,
         lat |-> IF relevantCrime # <<>>
                 THEN parseFloat(relevantCrime[1].location.latitude)
                 ELSE Num(DefaultLat),
         lng |-> IF relevantCrime # <<>>
                 THEN parseFloat(relevantCrime[1].location.longitude)
                 ELSE Num(DefaultLng),
         placed |-> IF relevantCrime # <<>> THEN "crime" ELSE "default"]

InsightsLayer(visible, insightList, crimes) ==
    IF visible
    THEN SelectSeq([i \in 1..Len(insightList) |-> InsightMarker(crimes, insightList[i])],
                   LAMBDA m : ~isNaN(m.lat) /\ ~isNaN(m.lng))
    ELSE <<>>

PredictiveHotspotLayer(visible, hotspots) ==
    IF visible
    THEN SelectSeq(hotspots, LAMBDA h : ~isNaN(h.latitude) /\ ~isNaN(h.longitude))
    ELSE <<>>

\* The stop and search effect: the old circle leaves the map, and a selected
\* stop and search whose coordinates parse gets a new circle with a popup.
NoCircle == [onMap |-> FALSE, stopSearch |-> <<>>, lat |-> NaN, lng |-> NaN,
             popup |-> loadingBriefingContent]

StopSearchCircle(selected) ==
    IF selected # <<>> /\ selected[1].location.present
       /\ ~isNaN(parseFloat(selected[1].location.latitude))
       /\ ~isNaN(parseFloat(selected[1].location.longitude))
    THEN [onMap |-> TRUE, stopSearch |-> selected,
          lat |-> parseFloat(selected[1].location.latitude),
          lng |-> parseFloat(selected[1].location.longitude),
          popup |-> loadingBriefingContent]
    ELSE NoCircle

\* Mutant of FilterCrimes: the category is not looked at.
FilterCrimes_All(crimes, category) == crimes

\* The filter effect of App.tsx
FilterCrimes(crimes, category) ==
    IF category # "all"
    THEN SelectSeq(crimes, LAMBDA crime : crime.category = category)
    ELSE crimes

\* A SortConfig: the column a table is sorted by and the direction.
SortConfig(key, direction) == [key |-> key, direction |-> direction]

NoneIssued == [fetches |-> 0, aiCalls |-> 0, briefings |-> 0, llmRequests |-> 0]

\* The App just mounted, apart from the service and the data: the initial
\* values of useState, useReducer and the refs, the layers after the first
\* run of the effects, and the fetchData call of the mount effect waiting
\* for the available dates.
Mounted ==
    /\ filteredCrimes = <<>>
    /\ crimeCategories = <<>>
    /\ selectedCategory = "all"
    /\ selectedCrimeId = <<>>
    /\ selectedStopSearch = <<>>
    /\ isLoading = TRUE
    /\ isDensityHeatmapVisible = TRUE
    /\ isRecencyHeatmapVisible = FALSE
    /\ isInsightsVisible = FALSE
    /\ isPredictiveHotspotsVisible = FALSE
    /\ insights = <<>>
    /\ predictiveHotspots = <<>>
    /\ modal = initialModalState
    /\ fetches = { [id |-> 0, pc |-> "dates", categories |-> 0] }
    /\ aiCalls = {}
    /\ briefings = {}
    /\ issued = NoneIssued
    /\ crimeMarkers = <<>>
    /\ densityHeatLayer = NoHeatLayer
    /\ recencyHeatLayer = NoHeatLayer
    /\ insightsLayer = <<>>
    /\ predictiveHotspotLayer = <<>>
    /\ stopSearchCircle = NoCircle
    /\ briefingCache = <<>>
    /\ interval = TRUE
    /\ crimeSortConfig = SortConfig("month", "desc")
    /\ stopSearchSortConfig = SortConfig("datetime", "desc")
    /\ briefingSubject = <<>>
    /\ briefingLoading = {}

varsApp ==
    <<filteredCrimes, crimeCategories, selectedCategory, selectedCrimeId,
      selectedStopSearch, isLoading, isDensityHeatmapVisible,
      isRecencyHeatmapVisible, isInsightsVisible, isPredictiveHotspotsVisible,
      insights, predictiveHotspots, modal, fetches, aiCalls, briefings, issued,
      crimeMarkers, densityHeatLayer, recencyHeatLayer, insightsLayer,
      predictiveHotspotLayer, stopSearchCircle, briefingCache, briefingSubject,
      briefingLoading, crimeSortConfig, stopSearchSortConfig, interval>>

varsBriefing == <<ai, allCrimes, allStopSearches, briefingCall>>

varsJson == <<jsonText, jsonResult>>

vars == <<ai, allCrimes, allStopSearches, briefingCall, jsonText, jsonResult, varsApp>>

-----------------------------------------------------------------------------
(* SpecBriefing: the briefing functions applied to bounded inputs *)

InitBriefing ==
    /\ ai \in BOOLEAN
    /\ \E in \in BriefingInputs : allCrimes = in[1] /\ allStopSearches = in[2]
    /\ briefingCall = NoCall
    /\ jsonText = <<>>
    /\ jsonResult = NotParsed
    /\ Mounted

IncidentBriefing(crime) ==
    /\ briefingCall' = generateIncidentBriefing(crime, allCrimes, allStopSearches)
    /\ UNCHANGED <<ai, allCrimes, allStopSearches, varsJson, varsApp>>

StopSearchBriefing(stopSearch) ==
    /\ briefingCall' = generateStopSearchBriefing(stopSearch, allCrimes, allStopSearches)
    /\ UNCHANGED <<ai, allCrimes, allStopSearches, varsJson, varsApp>>

NextBriefing ==
    \/ \E crime \in IncidentSubjects : IncidentBriefing(crime)
    \/ \E stopSearch \in StopSearchSubjects : StopSearchBriefing(stopSearch)

SpecBriefing == InitBriefing /\ [][NextBriefing]_vars

-----------------------------------------------------------------------------
(* Claims about the proximity filter, checked under SpecBriefing *)

Range(seq) == { seq[i] : i \in 1..Len(seq) }

IsCrime(rec) == "month" \in DOMAIN rec

\* The timestamp of a record: the start of its month for a crime, its
\* date-time for a stop and search.
TimestampOf(rec) ==
    IF IsCrime(rec) THEN MomentOfMonth(rec.month) ELSE MomentOfDatetime(rec.datetime)

\* Both coordinates are present and parse to a number.
CoordsParse(rec) ==
    /\ rec.location.present
    /\ rec.location.latitude.kind \in {"num", "numjunk"}
    /\ rec.location.longitude.kind \in {"num", "numjunk"}

\* The great-circle distance between two records with parseable coordinates.
DistanceBetween(a, b) ==
    haversineDistance(a.location.latitude.v, a.location.longitude.v,
                      b.location.latitude.v, b.location.longitude.v)

\* The record lies within 0.25 km (250000 mm) of the subject of the call.
WithinRadius(subject, rec) == DistanceBetween(subject, rec) <= 250000

\* The record's timestamp lies in [subject - 1 month, subject + 1 month].
WithinWindow(subject, rec) ==
    /\ ValueOf(AddMonths(TimestampOf(subject), -1)) <= ValueOf(TimestampOf(rec))
    /\ ValueOf(TimestampOf(rec)) <= ValueOf(AddMonths(TimestampOf(subject), 1))

\* The record's timestamp is an end point of the window.
AtWindowEnd(subject, rec) ==
    \/ ValueOf(TimestampOf(rec)) = ValueOf(AddMonths(TimestampOf(subject), -1))
    \/ ValueOf(TimestampOf(rec)) = ValueOf(AddMonths(TimestampOf(subject), 1))

Qualifies(subject, rec) ==
    CoordsParse(rec) /\ WithinRadius(subject, rec) /\ WithinWindow(subject, rec)

\* C1: every nearby crime and nearby stop and search selected by
\* generateIncidentBriefing, and every nearby crime selected by
\* generateStopSearchBriefing, lies at haversine distance <= 0.25 km from the
\* subject of the call.
C1_NearbyWithinRadius ==
    briefingCall.kind = "llm" =>
        /\ \A rec \in Range(briefingCall.nearbyCrimes) :
              CoordsParse(rec) /\ WithinRadius(briefingCall.subject, rec)
        /\ \A rec \in Range(briefingCall.nearbyStopSearches) :
              CoordsParse(rec) /\ WithinRadius(briefingCall.subject, rec)

\* An incident briefing that selected a crime and a stop and search while a
\* candidate with parseable coordinates in the time window lay beyond the radius.
C1_Witness ==
    /\ briefingCall.kind = "llm" /\ briefingCall.fn = "incident"
    /\ Len(briefingCall.nearbyCrimes) > 0
    /\ Len(briefingCall.nearbyStopSearches) > 0
    /\ \E rec \in Range(allCrimes) :
          /\ CoordsParse(rec) /\ WithinWindow(briefingCall.subject, rec)
          /\ ~WithinRadius(briefingCall.subject, rec)

\* C2: every record selected as nearby has its timestamp inside
\* [subject - 1 month, subject + 1 month], and the end points count as inside:
\* a candidate within the radius whose timestamp is an end point is selected.
C2_NearbyWithinWindow ==
    briefingCall.kind = "llm" =>
        /\ \A rec \in Range(briefingCall.nearbyCrimes) \cup Range(briefingCall.nearbyStopSearches) :
              WithinWindow(briefingCall.subject, rec)
        /\ \A rec \in Range(allCrimes) :
              ( /\ CoordsParse(rec) /\ WithinRadius(briefingCall.subject, rec)
                /\ AtWindowEnd(briefingCall.subject, rec) )
              => rec \in Range(briefingCall.nearbyCrimes)
        /\ briefingCall.fn = "incident" =>
              \A rec \in Range(allStopSearches) :
                 ( /\ CoordsParse(rec) /\ WithinRadius(briefingCall.subject, rec)
                   /\ AtWindowEnd(briefingCall.subject, rec) )
                 => rec \in Range(briefingCall.nearbyStopSearches)

\* A call that selected a stop and search exactly at an end of the window
\* while a candidate within the radius lay one tick outside it.
C2_Witness ==
    /\ briefingCall.kind = "llm"
    /\ \E rec \in Range(briefingCall.nearbyStopSearches) :
          AtWindowEnd(briefingCall.subject, rec)
    /\ \E rec \in Range(allStopSearches) :
          /\ CoordsParse(rec) /\ WithinRadius(briefingCall.subject, rec)
          /\ ~WithinWindow(briefingCall.subject, rec)

\* The candidates of a list whose coordinates parse.
Parseable(seq) == SelectSeq(seq, CoordsParse)

\* C3: a candidate whose latitude or longitude is missing, empty or does not
\* parse is never selected; every selected record is a record of the input
\* with its own coordinates; the call does not throw because of a candidate;
\* and the other candidates are selected exactly as if the bad ones were absent.
C3_UnparseableExcluded ==
    /\ briefingCall.kind = "throws" => ~briefingCall.subject.location.present
    /\ briefingCall.kind = "llm" =>
        /\ \A rec \in Range(briefingCall.nearbyCrimes) :
              rec \in Range(allCrimes) /\ CoordsParse(rec)
        /\ \A rec \in Range(briefingCall.nearbyStopSearches) :
              rec \in Range(allStopSearches) /\ CoordsParse(rec)
        /\ briefingCall.fn = "incident" =>
              briefingCall = generateIncidentBriefing(briefingCall.subject,
                                 Parseable(allCrimes), Parseable(allStopSearches))
        /\ briefingCall.fn = "stopSearch" =>
              briefingCall = generateStopSearchBriefing(briefingCall.subject,
                                 Parseable(allCrimes), Parseable(allStopSearches))

\* A call over a list that holds a candidate with a bad coordinate next to the
\* subject's own position, and a candidate that was selected.
C3_Witness ==
    /\ briefingCall.kind = "llm"
    /\ \E rec \in Range(allCrimes) : ~CoordsParse(rec) /\ rec.location.present
    /\ Len(briefingCall.nearbyCrimes) > 0

\* The positions of a list whose record qualifies as nearby to the subject.
QualifyingPositions(subject, seq) ==
    { i \in 1..Len(seq) : Qualifies(subject, seq[i]) }

\* The k-th smallest element of a set of positions.
NthPosition(S, k) == CHOOSE i \in S : Cardinality({ j \in S : j <= i }) = k

\* The example of the specification: the subject at (53.5228, -1.1285) in
\* 2024-05 and the three candidates.
IsExampleSubject(rec) ==
    /\ IsCrime(rec) /\ rec.month = Month(2024, 5) /\ CoordsParse(rec)
    /\ <<rec.location.latitude.v, rec.location.longitude.v>> = <<535228, -11285>>

IsExampleCandidate(rec, lat, lon, month) ==
    /\ CoordsParse(rec) /\ rec.month = month
    /\ <<rec.location.latitude.v, rec.location.longitude.v>> = <<lat, lon>>

\* C4: the filter is exact: every candidate with parseable coordinates that
\* is within 0.25 km of the subject and inside the inclusive +/- 1 month
\* window is selected, as often as it occurs.  For the subject of 2024-05 at
\* (53.5228, -1.1285): (53.5230, -1.1286, 2024-06) is selected,
\* (53.5300, -1.1400, 2024-06) is not, (53.5230, -1.1286, 2024-01) is not.
C4_FilterExact ==
    briefingCall.kind = "llm" =>
        /\ \A rec \in Range(allCrimes) :
              Qualifies(briefingCall.subject, rec) => rec \in Range(briefingCall.nearbyCrimes)
        /\ Len(briefingCall.nearbyCrimes)
              = Cardinality(QualifyingPositions(briefingCall.subject, allCrimes))
        /\ briefingCall.fn = "incident" =>
              /\ \A rec \in Range(allStopSearches) :
                    Qualifies(briefingCall.subject, rec)
                        => rec \in Range(briefingCall.nearbyStopSearches)
              /\ Len(briefingCall.nearbyStopSearches)
                    = Cardinality(QualifyingPositions(briefingCall.subject, allStopSearches))
        /\ IsExampleSubject(briefingCall.subject) =>
              \A rec \in Range(allCrimes) :
                 /\ IsExampleCandidate(rec, 535230, -11286, Month(2024, 6))
                       => rec \in Range(briefingCall.nearbyCrimes)
                 /\ IsExampleCandidate(rec, 535300, -11400, Month(2024, 6))
                       => rec \notin Range(briefingCall.nearbyCrimes)
                 /\ IsExampleCandidate(rec, 535230, -11286, Month(2024, 1))
                       => rec \notin Range(briefingCall.nearbyCrimes)

\* The example of the specification: the 2024-06 candidate within the radius
\* selected, with the far one or the 2024-01 one in the same list.
C4_Witness ==
    /\ briefingCall.kind = "llm" /\ IsExampleSubject(briefingCall.subject)
    /\ \E rec \in Range(briefingCall.nearbyCrimes) :
          IsExampleCandidate(rec, 535230, -11286, Month(2024, 6))
    /\ \E rec \in Range(allCrimes) :
          \/ IsExampleCandidate(rec, 535300, -11400, Month(2024, 6))
          \/ IsExampleCandidate(rec, 535230, -11286, Month(2024, 1))

\* C5: the nearby records keep the relative order of the input list (the
\* k-th nearby record is the record at the k-th qualifying position), and the
\* prompt quotes at most 5 records of each kind: the first 5 nearby ones.
C5_OrderAndSample ==
    briefingCall.kind = "llm" =>
        LET nc == briefingCall.nearbyCrimes
            ns == briefingCall.nearbyStopSearches
            pc == briefingCall.promptCrimes
            ps == briefingCall.promptStopSearches
        IN  /\ \A k \in 1..Len(nc) :
                  nc[k] = allCrimes[NthPosition(
                              QualifyingPositions(briefingCall.subject, allCrimes), k)]
            /\ \A k \in 1..Len(ns) :
                  ns[k] = allStopSearches[NthPosition(
                              QualifyingPositions(briefingCall.subject, allStopSearches), k)]
            /\ Len(pc) = (IF Len(nc) < 5 THEN Len(nc) ELSE 5)
            /\ Len(ps) = (IF Len(ns) < 5 THEN Len(ns) ELSE 5)
            /\ \A k \in 1..Len(pc) : pc[k] = PromptCrime(nc[k])
            /\ \A k \in 1..Len(ps) : ps[k] = PromptStopSearch(ns[k])

\* More than 5 nearby crimes, not all the same record, of which 5 are quoted.
C5_Witness ==
    /\ briefingCall.kind = "llm"
    /\ Len(briefingCall.nearbyCrimes) > 5
    /\ briefingCall.nearbyCrimes[1] # briefingCall.nearbyCrimes[2]
    /\ Len(briefingCall.promptCrimes) = 5

-----------------------------------------------------------------------------
(* SpecJson: parseJsonResponse applied to bounded texts *)

RECURSIVE SeqsUpTo(_, _)
SeqsUpTo(S, n) ==
    IF n = 0 THEN {<<>>}
    ELSE LET shorter == SeqsUpTo(S, n - 1)
         IN  shorter \cup { Append(t, x) : t \in shorter, x \in S }

\* A well-formed JSON array of n objects; sep follows each comma.
RECURSIVE ArrayItems(_, _)
ArrayItems(n, sep) ==
    IF n = 0 THEN <<>>
    ELSE IF n = 1 THEN <<"{}">>
    ELSE ArrayItems(n - 1, sep) \o <<",">> \o sep \o <<"{}">>

ArrayText(n, sep, pad) == <<"[">> \o pad \o ArrayItems(n, sep) \o pad \o <<"]">>

ArrayTexts ==
    { ArrayText(n, sep, pad) :
        n \in 0..MaxObjects, sep \in {<<>>, <<" ">>, <<"\n">>}, pad \in {<<>>, <<"\n">>} }

\* A Markdown code fence around a text: ``` tag gap text gap ```
Fence(tag, open, close, text) == BackTicks \o tag \o open \o text \o close \o BackTicks

LanguageTags == { <<>>, <<"w", "w", "w", "w">> }

FenceGaps == { <<>>, <<"\n">>, <<" ", "\n">> }

FencedTexts(text) ==
    { Fence(tag, open, close, text) :
        tag \in LanguageTags, open \in FenceGaps, close \in FenceGaps }

\* What the LLM may answer: a well-formed array, bare or fenced, with or
\* without white space around it, a damaged array, or any short text.
ResponseTexts ==
    ArrayTexts
    \cup UNION { FencedTexts(t) : t \in ArrayTexts }
    \cup { <<"\n">> \o f \o <<" ">> : f \in UNION { FencedTexts(t) : t \in ArrayTexts } }
    \cup { SubSeq(t, 1, Len(t) - 1) : t \in ArrayTexts }
    \cup SeqsUpTo(Alphabet, MaxTextLen)
    \cup { BackTicks \o t \o BackTicks : t \in SeqsUpTo(Alphabet, MaxTextLen) }

InitJson ==
    /\ jsonText \in ResponseTexts
    /\ jsonResult = NotParsed
    /\ ai = TRUE
    /\ allCrimes = <<>>
    /\ allStopSearches = <<>>
    /\ briefingCall = NoCall
    /\ Mounted

ParseJsonResponse ==
    /\ jsonResult = NotParsed
    /\ jsonResult' = parseJsonResponse(jsonText)
    /\ UNCHANGED <<jsonText, varsBriefing, varsApp>>

NextJson == ParseJsonResponse

SpecJson == InitJson /\ [][NextJson]_vars

\* The number of object literals in a text.
ObjectCount(text) == Cardinality({ i \in 1..Len(text) : text[i] = "{}" })

\* C9: parseJsonResponse applied to a well-formed JSON array of n objects
\* yields n objects, and applied to that text wrapped in a Markdown code
\* fence, with or without a language tag, yields the same result.
C9_FencedArrayParses ==
    jsonResult # NotParsed =>
        \A body \in ArrayTexts :
            (jsonText = body \/ jsonText \in FencedTexts(body)) =>
                /\ jsonResult = Parsed("array", ObjectCount(body))
                /\ jsonResult = parseJsonResponse(body)

\* A multi-line array of three or more objects in a fence without a language
\* tag, parsed.
C9_Witness ==
    /\ jsonResult # NotParsed /\ jsonResult.ok /\ Len(jsonResult.items) >= 3
    /\ \E body \in ArrayTexts :
          /\ "\n" \in Range(body)
          /\ jsonText \in { Fence(<<>>, open, close, body) : open \in FenceGaps, close \in FenceGaps }

-----------------------------------------------------------------------------
(* The application: what the police API and the LLM may answer *)

HighStreet == Crime(1, "burglary", Month(2024, 5), At(Centre, "High Street"))

LowRoad == Crime(2, "robbery", Month(2024, 6), At(Near, "Low Road"))

BadLatitude ==
    Crime(3, "burglary", Month(2024, 5),
          Location(Str("junk", 0), Str("num", Near[2]), "High Street"))

NoLongitude ==
    Crime(4, "robbery", Month(2024, 5),
          Location(Str("num", Near[1]), Str("missing", 0), "Mill Lane"))

NearStop == StopSearch(1, Datetime(2024, 5, 15, 1), At(Near, "Low Road"))

FarStop == StopSearch(2, Datetime(2024, 5, 16, 0), At(Far, "Mill Lane"))

BadStop ==
    StopSearch(3, Datetime(2024, 5, 16, 1),
               Location(Str("junk", 0), Str("junk", 0), "Mill Lane"))

Categories == <<"burglary", "robbery">>

\* What one refresh delivers: crimes, stop and searches and the categories.
SmallData ==
    { [crimes |-> <<HighStreet, BadLatitude, LowRoad>>,
       stopSearches |-> <<NearStop, BadStop>>, categories |-> Categories],
      [crimes |-> <<BadLatitude, LowRoad, NoLongitude>>,
       stopSearches |-> <<FarStop, NearStop>>, categories |-> Categories] }

LargeData ==
    { [crimes |-> Cycle(<<LowRoad, NoLongitude, HighStreet>>, MinHotspotCrimes),
       stopSearches |-> <<NearStop>>, categories |-> Categories] }

\* The texts the LLM answers a summary or a briefing request with.
AnswerTexts == { <<"a">>, <<"b", "\n", "b">> }

\* The texts the LLM answers an insights or hotspots request with: arrays of
\* none, one and two objects, bare and fenced, a damaged array and prose.
JsonAnswers ==
    { ArrayText(0, <<>>, <<>>),
      ArrayText(1, <<>>, <<"\n">>),
      Fence(<<"w", "w", "w", "w">>, <<"\n">>, <<"\n">>, ArrayText(2, <<" ">>, <<>>)),
      <<"[", "{}">>,
      <<"w", " ", "w">> }

\* The objects of an answer, in the order of the array.
InsightObjects ==
    << [area |-> "High Street", insight |-> "i1"],
       [area |-> "Station Road", insight |-> "i2"] >>

HotspotObjects ==
    << [area |-> "High Street", latitude |-> Num(Near[1]), longitude |-> Num(Near[2]),
        predictedCrimeType |-> "burglary", reason |-> "r1"],
       [area |-> "Station Road", latitude |-> NaN, longitude |-> Num(Far[2]),
        predictedCrimeType |-> "robbery", reason |-> "r2"] >>

\* The value JSON.parse built from an array of n objects.
Objects(pool, parsed) == SubSeq(pool, 1, Len(parsed.items))

\* parseJsonResponse applied to each of these answers.
ParsedAnswers == [text \in JsonAnswers |-> parseJsonResponse(text)]

-----------------------------------------------------------------------------
(* The application: effects that follow a render *)

\* The heat map, insights and hotspot effects of CrimeMap, run on the state
\* the handler leaves.
LayerEffects ==
    /\ densityHeatLayer' =
          DensityHeatLayer(densityHeatLayer, filteredCrimes', isDensityHeatmapVisible')
    /\ recencyHeatLayer' =
          RecencyHeatLayer(recencyHeatLayer, filteredCrimes',
                           isDensityHeatmapVisible', isRecencyHeatmapVisible')
    /\ insightsLayer' = InsightsLayer(isInsightsVisible', insights', filteredCrimes')
    /\ predictiveHotspotLayer' =
          PredictiveHotspotLayer(isPredictiveHotspotsVisible', predictiveHotspots')

\* A popupopen handler whose popup left the map keeps waiting; its
\* setContent then changes nothing that is shown.
Detach(target, calls) ==
    { IF b.target = target THEN [b EXCEPT !.attached = FALSE] ELSE b : b \in calls }

varsData == <<allCrimes, allStopSearches, crimeCategories>>

varsFlags ==
    <<isDensityHeatmapVisible, isRecencyHeatmapVisible, isInsightsVisible,
      isPredictiveHotspotsVisible>>

varsSelection == <<selectedCrimeId, selectedStopSearch>>

varsLayers ==
    <<densityHeatLayer, recencyHeatLayer, insightsLayer, predictiveHotspotLayer>>

varsBriefings == <<briefings, briefingCache, briefingSubject, briefingLoading>>

varsPure == <<ai, briefingCall, jsonText, jsonResult>>

varsSort == <<crimeSortConfig, stopSearchSortConfig>>

-----------------------------------------------------------------------------
(* The application: refresh and filter (App.tsx 95-132) *)

\* fetchData up to its first await.
StartFetch ==
    /\ isLoading' = TRUE
    /\ fetches' = fetches \cup
          { [id |-> issued.fetches + 1, pc |-> "dates",
             categories |-> Len(crimeCategories)] }
    /\ issued' = [issued EXCEPT !.fetches = @ + 1]

\* Mutant of IntervalTick: a tick is dropped while a refresh is in flight.
IntervalTick_Blocked ==
    /\ fetches = {}
    /\ issued.fetches < MaxFetches
    /\ StartFetch
    /\ UNCHANGED <<varsPure, interval, varsSort,
                   varsData, filteredCrimes, selectedCategory, varsSelection,
                   varsFlags, insights, predictiveHotspots, modal, aiCalls,
                   crimeMarkers, varsLayers, stopSearchCircle, varsBriefings>>

\* The interval of the mount effect fires.
IntervalTick ==
    /\ interval
    /\ issued.fetches < MaxFetches
    /\ StartFetch
    /\ UNCHANGED <<varsPure, interval, varsSort,
                   varsData, filteredCrimes, selectedCategory, varsSelection,
                   varsFlags, insights, predictiveHotspots, modal, aiCalls,
                   crimeMarkers, varsLayers, stopSearchCircle, varsBriefings>>

\* The Update Now button, disabled while isLoading.
UpdateNowClick ==
    /\ interval
    /\ ~isLoading
    /\ issued.fetches < MaxFetches
    /\ StartFetch
    /\ UNCHANGED <<varsPure, interval, varsSort,
                   varsData, filteredCrimes, selectedCategory, varsSelection,
                   varsFlags, insights, predictiveHotspots, modal, aiCalls,
                   crimeMarkers, varsLayers, stopSearchCircle, varsBriefings>>

\* The App is torn down: the cleanup of the mount effect clears the timer
\* (App.tsx 123).  The calls of fetchData in flight go on, but what they
\* set is the state of a component that is gone.
Unmount ==
    /\ interval
    /\ interval' = FALSE
    /\ fetches' = {}
    /\ UNCHANGED <<varsPure, varsData, filteredCrimes, selectedCategory, varsSelection,
                   isLoading, varsFlags, varsSort, insights, predictiveHotspots, modal,
                   aiCalls, issued, crimeMarkers, varsLayers, stopSearchCircle,
                   varsBriefings>>

\* getAvailableCrimeDates resolves.
FetchDatesArrive(f, hasDates) ==
    /\ f \in fetches /\ f.pc = "dates"
    /\ IF hasDates
       THEN /\ fetches' = (fetches \ {f}) \cup {[f EXCEPT !.pc = "data"]}
            /\ UNCHANGED isLoading
       ELSE /\ fetches' = fetches \ {f}
            /\ isLoading' = FALSE
    /\ UNCHANGED <<varsPure, interval, varsSort,
                   varsData, filteredCrimes, selectedCategory, varsSelection,
                   varsFlags, insights, predictiveHotspots, modal, aiCalls, issued,
                   crimeMarkers, varsLayers, stopSearchCircle, varsBriefings>>

\* Mutant of FetchFails: fetchData catches the rejection and ends loading.
FetchFails_Handled(f) ==
    /\ f \in fetches
    /\ fetches' = fetches \ {f}
    /\ isLoading' = FALSE
    /\ UNCHANGED <<varsPure, interval, varsSort,
                   varsData, filteredCrimes, selectedCategory, varsSelection,
                   varsFlags, insights, predictiveHotspots, modal, aiCalls,
                   issued, crimeMarkers, varsLayers, stopSearchCircle, varsBriefings>>

\* A request of fetchData rejects: fetchData has no catch, the call ends.
FetchFails(f) ==
    /\ f \in fetches
    /\ fetches' = fetches \ {f}
    /\ UNCHANGED <<varsPure, interval, varsSort,
                   varsData, filteredCrimes, selectedCategory, varsSelection,
                   isLoading, varsFlags, insights, predictiveHotspots, modal, aiCalls,
                   issued, crimeMarkers, varsLayers, stopSearchCircle, varsBriefings>>

\* Promise.all resolves: the state is replaced, the filter effect and the
\* effects of CrimeMap run, and when crimeCategories.length changed fetchData
\* is a new function, so the mount effect runs again and calls it.
FetchDataArrive(f, data) ==
    /\ f \in fetches /\ f.pc = "data"
    /\ allCrimes' = data.crimes
    /\ allStopSearches' = data.stopSearches
    /\ crimeCategories' = IF f.categories = 0 THEN data.categories ELSE crimeCategories
    /\ IF Len(crimeCategories') # Len(crimeCategories)
       THEN /\ isLoading' = TRUE
            /\ fetches' = (fetches \ {f}) \cup
                  { [id |-> issued.fetches + 1, pc |-> "dates",
                     categories |-> Len(crimeCategories')] }
            /\ issued' = [issued EXCEPT !.fetches = @ + 1]
       ELSE /\ isLoading' = FALSE
            /\ fetches' = fetches \ {f}
            /\ UNCHANGED issued
    /\ filteredCrimes' = FilterCrimes(allCrimes', selectedCategory)
    /\ crimeMarkers' = CrimeMarkers(filteredCrimes')
    /\ stopSearchCircle' = StopSearchCircle(selectedStopSearch)
    /\ briefings' = Detach("circle", Detach("marker", briefings))
    /\ UNCHANGED <<varsPure, interval, varsSort,
                   selectedCategory, varsSelection, varsFlags, insights,
                   predictiveHotspots, modal, aiCalls, briefingCache, briefingSubject,
                   briefingLoading>>
    /\ LayerEffects

\* The category filter changes.
SelectCategory(category) ==
    /\ category # selectedCategory
    /\ selectedCategory' = category
    /\ filteredCrimes' = FilterCrimes(allCrimes, category)
    /\ crimeMarkers' = CrimeMarkers(filteredCrimes')
    /\ briefings' = Detach("marker", briefings)
    /\ UNCHANGED <<varsPure, interval, varsSort,
                   varsData, varsSelection, isLoading, varsFlags, insights,
                   predictiveHotspots, modal, fetches, aiCalls, issued,
                   stopSearchCircle, briefingCache, briefingSubject, briefingLoading>>
    /\ LayerEffects

\* Mutant of DensityClick: showing the density layer leaves the recency flag.
DensityClick_KeepsRecency ==
    /\ isDensityHeatmapVisible' = ~isDensityHeatmapVisible
    /\ UNCHANGED <<varsPure, interval, varsSort,
                   varsData, filteredCrimes, selectedCategory, varsSelection,
                   isLoading, isRecencyHeatmapVisible, isInsightsVisible,
                   isPredictiveHotspotsVisible, insights,
                   predictiveHotspots, modal, fetches, aiCalls, issued, crimeMarkers,
                   stopSearchCircle, varsBriefings>>
    /\ LayerEffects

\* The density and recency buttons (App.tsx 279-280).
DensityClick ==
    /\ isDensityHeatmapVisible' = ~isDensityHeatmapVisible
    /\ isRecencyHeatmapVisible' =
          IF ~isDensityHeatmapVisible THEN FALSE ELSE isRecencyHeatmapVisible
    /\ UNCHANGED <<varsPure, interval, varsSort,
                   varsData, filteredCrimes, selectedCategory, varsSelection,
                   isLoading, isInsightsVisible, isPredictiveHotspotsVisible, insights,
                   predictiveHotspots, modal, fetches, aiCalls, issued, crimeMarkers,
                   stopSearchCircle, varsBriefings>>
    /\ LayerEffects

RecencyClick ==
    /\ isRecencyHeatmapVisible' = ~isRecencyHeatmapVisible
    /\ isDensityHeatmapVisible' =
          IF ~isRecencyHeatmapVisible THEN FALSE ELSE isDensityHeatmapVisible
    /\ UNCHANGED <<varsPure, interval, varsSort,
                   varsData, filteredCrimes, selectedCategory, varsSelection,
                   isLoading, isInsightsVisible, isPredictiveHotspotsVisible, insights,
                   predictiveHotspots, modal, fetches, aiCalls, issued, crimeMarkers,
                   stopSearchCircle, varsBriefings>>
    /\ LayerEffects

-----------------------------------------------------------------------------
(* The application: AI features (App.tsx 134-179, 278-283) *)

\* handleAIFeature: the dispatch of OPEN_MODAL.
handleAIFeature_Open(state, modalKey) == modalReducer(state, OpenModalAction(modalKey))

\* handleAIFeature: the dispatch after apiCall resolved.
handleAIFeature_Success(state, content) == modalReducer(state, SetContentAction(content))

\* Mutant of handleAIFeature_Catch: the error is swallowed.
handleAIFeature_CatchSilent(state, message) == state

\* handleAIFeature: the catch branch.
handleAIFeature_Catch(state, message) ==
    modalReducer(state, SetContentAction(ErrorContent(message)))

\* handleAIFeature after the dispatch of OPEN_MODAL, for an apiCall that sends
\* a request: the call waits for the LLM.
AwaitLLM(feature) ==
    /\ issued.aiCalls < MaxAICalls
    /\ aiCalls' = aiCalls \cup { [id |-> issued.aiCalls + 1, feature |-> feature] }
    /\ issued' = [issued EXCEPT !.aiCalls = @ + 1, !.llmRequests = @ + 1]

\* The Summarize button.
SummarizeClick ==
    LET call == summarizeCrimeTrends(filteredCrimes)
        opened == handleAIFeature_Open(modal, "trend")
    IN  /\ IF call.kind = "static"
           THEN /\ modal' = handleAIFeature_Success(opened, SummaryContent(call.value))
                /\ UNCHANGED <<aiCalls, issued>>
           ELSE /\ AwaitLLM("trend")
                /\ modal' = opened
        /\ UNCHANGED <<varsPure, interval, varsSort,
                       varsData, filteredCrimes, selectedCategory,
                       varsSelection, isLoading, varsFlags, insights,
                       predictiveHotspots, fetches, crimeMarkers, varsLayers,
                       stopSearchCircle, varsBriefings>>

\* onSuccess of handleGenerateInsights, and the effects of the render.
ShowInsights(state, insightData) ==
    /\ insights' = insightData
    /\ isInsightsVisible' = TRUE
    /\ modal' = handleAIFeature_Success(state, InsightsContent(insightData))
    /\ UNCHANGED <<varsPure, interval, varsSort,
                   varsData, filteredCrimes, selectedCategory, varsSelection,
                   isLoading, isDensityHeatmapVisible, isRecencyHeatmapVisible,
                   isPredictiveHotspotsVisible, predictiveHotspots, fetches,
                   crimeMarkers, stopSearchCircle, varsBriefings>>
    /\ LayerEffects

\* onSuccess of handleGeneratePredictiveHotspots, and the effects.
ShowHotspots(state, hotspotData) ==
    /\ predictiveHotspots' = hotspotData
    /\ isPredictiveHotspotsVisible' = TRUE
    /\ modal' = handleAIFeature_Success(state, HotspotsContent(hotspotData))
    /\ UNCHANGED <<varsPure, interval, varsSort,
                   varsData, filteredCrimes, selectedCategory, varsSelection,
                   isLoading, isDensityHeatmapVisible, isRecencyHeatmapVisible,
                   isInsightsVisible, insights, fetches,
                   crimeMarkers, stopSearchCircle, varsBriefings>>
    /\ LayerEffects

\* The insights button: it toggles the layer when there are insights and
\* generates them otherwise.
InsightsClick ==
    IF Len(insights) > 0
    THEN /\ isInsightsVisible' = ~isInsightsVisible
         /\ UNCHANGED <<varsPure, interval, varsSort,
                        varsData, filteredCrimes, selectedCategory,
                        varsSelection, isLoading, isDensityHeatmapVisible,
                        isRecencyHeatmapVisible, isPredictiveHotspotsVisible, insights,
                        predictiveHotspots, modal, fetches, aiCalls, issued,
                        crimeMarkers, stopSearchCircle, varsBriefings>>
         /\ LayerEffects
    ELSE LET call == generateCrimeInsights(filteredCrimes)
             opened == handleAIFeature_Open(modal, "insights")
         IN  IF call.kind = "static"
             THEN /\ ShowInsights(opened, call.value)
                  /\ UNCHANGED <<aiCalls, issued>>
             ELSE /\ AwaitLLM("insights")
                  /\ modal' = opened
                  /\ UNCHANGED <<varsPure, interval, varsSort,
                                 varsData, filteredCrimes, selectedCategory,
                                 varsSelection, isLoading, varsFlags, insights,
                                 predictiveHotspots, fetches, crimeMarkers, varsLayers,
                                 stopSearchCircle, varsBriefings>>

\* The predict button.
PredictClick ==
    IF Len(predictiveHotspots) > 0
    THEN /\ isPredictiveHotspotsVisible' = ~isPredictiveHotspotsVisible
         /\ UNCHANGED <<varsPure, interval, varsSort,
                        varsData, filteredCrimes, selectedCategory,
                        varsSelection, isLoading, isDensityHeatmapVisible,
                        isRecencyHeatmapVisible, isInsightsVisible, insights,
                        predictiveHotspots, modal, fetches, aiCalls, issued,
                        crimeMarkers, stopSearchCircle, varsBriefings>>
         /\ LayerEffects
    ELSE LET call == generatePredictiveHotspots(allCrimes)
             opened == handleAIFeature_Open(modal, "predictive")
         IN  IF call.kind = "static"
             THEN /\ ShowHotspots(opened, call.value)
                  /\ UNCHANGED <<aiCalls, issued>>
             ELSE /\ AwaitLLM("predictive")
                  /\ modal' = opened
                  /\ UNCHANGED <<varsPure, interval, varsSort,
                                 varsData, filteredCrimes, selectedCategory,
                                 varsSelection, isLoading, varsFlags, insights,
                                 predictiveHotspots, fetches, crimeMarkers, varsLayers,
                                 stopSearchCircle, varsBriefings>>

\* The modal and nothing else changes.
OnlyModal ==
    UNCHANGED <<varsPure, interval, varsSort, varsData, filteredCrimes, selectedCategory, varsSelection,
                isLoading, varsFlags, insights, predictiveHotspots, fetches,
                crimeMarkers, varsLayers, stopSearchCircle, varsBriefings>>

\* generateContent of a summary request resolves with a text.
SummaryArrives(call, text) ==
    /\ call \in aiCalls /\ call.feature = "trend"
    /\ aiCalls' = aiCalls \ {call}
    /\ modal' = handleAIFeature_Success(modal, SummaryContent(text))
    /\ UNCHANGED issued
    /\ OnlyModal

\* generateContent of an insights or hotspots request resolves with a text:
\* parseJsonResponse returns the array or throws.
JsonArrives(call, text) ==
    /\ call \in aiCalls /\ call.feature \in {"insights", "predictive"}
    /\ aiCalls' = aiCalls \ {call}
    /\ UNCHANGED issued
    /\ LET parsed == ParsedAnswers[text]
       IN  IF ~parsed.ok
           THEN /\ modal' = handleAIFeature_Catch(modal, parsed.message)
                /\ OnlyModal
           ELSE IF call.feature = "insights"
           THEN ShowInsights(modal, Objects(InsightObjects, parsed))
           ELSE ShowHotspots(modal, Objects(HotspotObjects, parsed))

\* generateContent rejects.
RequestFails(call) ==
    /\ call \in aiCalls
    /\ aiCalls' = aiCalls \ {call}
    /\ modal' = handleAIFeature_Catch(modal, RequestFailedMessage)
    /\ UNCHANGED issued
    /\ OnlyModal

\* closeModal
CloseModal ==
    /\ \E k \in ModalKeys : modal.modal[k]
    /\ modal' = modalReducer(modal, CloseModalAction)
    /\ UNCHANGED <<aiCalls, issued>>
    /\ OnlyModal

-----------------------------------------------------------------------------
(* The application: selection and popups (App.tsx 79-93, CrimeMap.tsx 192-345) *)

\* The first argument of handleItemSelection: 'crime', 'stopSearch', null,
\* or, from the map, the id of a crime.  No id is one of the two words.
SelectionType(tag, id) == [tag |-> tag, id |-> id]

\* Mutant of handleItemSelection: an id selects the crime of that id.
handleItemSelection_ById(type, item) ==
    IF type.tag = "id"
    THEN [selectedCrimeId |-> <<type.id>>, selectedStopSearch |-> <<>>]
    ELSE IF type.tag = "stopSearch" /\ item # <<>>
    THEN [selectedCrimeId |-> <<>>, selectedStopSearch |-> item]
    ELSE [selectedCrimeId |-> <<>>, selectedStopSearch |-> <<>>]

\* Mutant of handleItemSelection: the selection of a crime leaves the
\* selected stop and search as it is.
handleItemSelection_KeepOther(type, item) ==
    IF type.tag = "crime" /\ item # <<>>
    THEN [selectedCrimeId |-> <<CrimeId(item[1])>>,
          selectedStopSearch |-> selectedStopSearch]
    ELSE IF type.tag = "stopSearch" /\ item # <<>>
    THEN [selectedCrimeId |-> <<>>, selectedStopSearch |-> item]
    ELSE [selectedCrimeId |-> <<>>, selectedStopSearch |-> <<>>]

\* handleItemSelection: the selection it sets.
handleItemSelection(type, item) ==
    IF type.tag = "crime" /\ item # <<>>
    THEN [selectedCrimeId |-> <<CrimeId(item[1])>>, selectedStopSearch |-> <<>>]
    ELSE IF type.tag = "stopSearch" /\ item # <<>>
    THEN [selectedCrimeId |-> <<>>, selectedStopSearch |-> item]
    ELSE [selectedCrimeId |-> <<>>, selectedStopSearch |-> <<>>]

\* A call of handleItemSelection and the stop and search effect after it;
\* the click handler of a marker has taken the circle off the map before.
Select(type, item, circleRemoved) ==
    /\ selectedCrimeId' = handleItemSelection(type, item).selectedCrimeId
    /\ selectedStopSearch' = handleItemSelection(type, item).selectedStopSearch
    /\ IF selectedStopSearch' # selectedStopSearch
       THEN /\ stopSearchCircle' = StopSearchCircle(selectedStopSearch')
            /\ briefings' = Detach("circle", briefings)
       ELSE IF circleRemoved /\ stopSearchCircle.onMap
       THEN /\ stopSearchCircle' = NoCircle
            /\ briefings' = Detach("circle", briefings)
       ELSE UNCHANGED <<stopSearchCircle, briefings>>
    /\ UNCHANGED <<varsPure, interval, varsSort,
                   varsData, filteredCrimes, selectedCategory, isLoading,
                   varsFlags, insights, predictiveHotspots, modal, fetches, aiCalls,
                   issued, crimeMarkers, varsLayers, briefingCache, briefingSubject,
                   briefingLoading>>

\* A row of the stop and search table is clicked: handleItemSelection with
\* 'stopSearch' and the row's record (App.tsx 364).
StopSearchRowClick(stopSearch) ==
    Select(SelectionType("stopSearch", 0), <<stopSearch>>, FALSE)

\* A row of the crime table is clicked (App.tsx 332).
CrimeRowClick(crime) == Select(SelectionType("crime", 0), <<crime>>, FALSE)

\* A crime marker is clicked: onCrimeSelect(crimeId) (CrimeMap.tsx 215-221).
MarkerClick(i) ==
    /\ i \in 1..Len(crimeMarkers)
    /\ Select(SelectionType("id", crimeMarkers[i].crimeId), <<>>, TRUE)

\* The background of the map is clicked: onCrimeSelect(null) (CrimeMap.tsx 148).
MapClick == Select(SelectionType("null", 0), <<>>, FALSE)

\* The popupclose handler of the circle removes it from the map.
CirclePopupClose ==
    /\ stopSearchCircle.onMap
    /\ stopSearchCircle' = NoCircle
    /\ briefings' = Detach("circle", briefings)
    /\ UNCHANGED <<varsPure, interval, varsSort,
                   varsData, filteredCrimes, selectedCategory, varsSelection,
                   isLoading, varsFlags, insights, predictiveHotspots, modal, fetches,
                   aiCalls, issued, crimeMarkers, varsLayers, briefingCache,
                   briefingSubject, briefingLoading>>

\* popup.setContent of the popup a handler was called for.
SetPopupContent(target, index, content) ==
    IF target = "marker"
    THEN /\ crimeMarkers' = [crimeMarkers EXCEPT ![index].popup = content]
         /\ UNCHANGED stopSearchCircle
    ELSE /\ stopSearchCircle' = [stopSearchCircle EXCEPT !.popup = content]
         /\ UNCHANGED crimeMarkers

\* The popup of a marker is open when its popupopen handler runs; the popup
\* of the circle is open as long as the circle is on the map.
OpenPopup(target, index, markers) ==
    IF target = "marker" THEN [markers EXCEPT ![index].opened = TRUE] ELSE markers

\* Mutant of CacheSet: storing a briefing drops the other entries.
CacheSet_Reset(cache, cacheKey, briefingHtml) == [k \in {cacheKey} |-> briefingHtml]

\* briefingCacheRef.current.set(cacheKey, briefingHtml)
CacheSet(cache, cacheKey, briefingHtml) ==
    [k \in DOMAIN cache \cup {cacheKey} |->
        IF k = cacheKey THEN briefingHtml ELSE cache[k]]

\* Mutant of MayRequest: a handler does not look at briefingLoadingRef.
MayRequest_Always(loading, cacheKey) == TRUE

\* if (briefingLoadingRef.current.has(cacheKey)) return;
MayRequest(loading, cacheKey) == cacheKey \notin loading

\* A popupopen handler, for the popup of a crime marker or of the circle:
\* call is what generate*Briefing does before its first await.
PopupOpen(target, index, cacheKey, call) ==
    LET markers == OpenPopup(target, index, crimeMarkers)
        Show(content) ==
            IF target = "marker"
            THEN /\ crimeMarkers' = [markers EXCEPT ![index].popup = content]
                 /\ UNCHANGED stopSearchCircle
            ELSE SetPopupContent(target, index, content)
    IN
    /\ IF cacheKey \in DOMAIN briefingCache
       THEN /\ Show(BriefingHtml(briefingCache[cacheKey]))
            /\ UNCHANGED <<varsBriefings, issued>>
       ELSE IF ~MayRequest(briefingLoading, cacheKey)
       THEN /\ crimeMarkers' = markers
            /\ UNCHANGED <<stopSearchCircle, varsBriefings, issued>>
       ELSE IF call.kind = "static"
       THEN /\ briefingCache' =
                  CacheSet(briefingCache, cacheKey, ReplaceNewlines(<<call.text>>))
            /\ briefingSubject' = CacheSet(briefingSubject, cacheKey, call.subject)
            /\ Show(BriefingHtml(ReplaceNewlines(<<call.text>>)))
            /\ UNCHANGED <<briefings, briefingLoading, issued>>
       ELSE IF call.kind = "throws"
       THEN /\ Show(FailedBriefingContent)
            /\ UNCHANGED <<varsBriefings, issued>>
       ELSE /\ issued.briefings < MaxBriefings
            /\ briefingLoading' = briefingLoading \cup {cacheKey}
            /\ briefings' = briefings \cup
                  { [id |-> issued.briefings + 1, key |-> cacheKey,
                     subject |-> call.subject, target |-> target,
                     index |-> index, attached |-> TRUE] }
            /\ issued' = [issued EXCEPT !.briefings = @ + 1, !.llmRequests = @ + 1]
            /\ crimeMarkers' = markers
            /\ UNCHANGED <<stopSearchCircle, briefingCache, briefingSubject>>
    /\ UNCHANGED <<varsPure, interval, varsSort,
                   varsData, filteredCrimes, selectedCategory, varsSelection,
                   isLoading, varsFlags, insights, predictiveHotspots, modal, fetches,
                   aiCalls, varsLayers>>

\* The popup of the i-th crime marker opens.
CrimePopupOpen(i) ==
    /\ i \in 1..Len(crimeMarkers)
    /\ PopupOpen("marker", i, CrimeCacheKey(crimeMarkers[i].crime),
                 generateIncidentBriefing(crimeMarkers[i].crime, allCrimes, allStopSearches))

\* The popup of the circle opens.
CirclePopupOpen ==
    /\ stopSearchCircle.onMap
    /\ PopupOpen("circle", 0,
                 StopSearchCacheKey(stopSearchCircle.stopSearch[1],
                                    stopSearchCircle.lat, stopSearchCircle.lng),
                 generateStopSearchBriefing(stopSearchCircle.stopSearch[1],
                                            allCrimes, allStopSearches))

\* The rest of a popupopen handler: finally, after try or catch.
BriefingDone(b, content) ==
    /\ IF b.attached
       THEN SetPopupContent(b.target, b.index, content)
       ELSE UNCHANGED <<crimeMarkers, stopSearchCircle>>
    /\ briefingLoading' = briefingLoading \ {b.key}
    /\ briefings' = briefings \ {b}
    /\ UNCHANGED <<varsPure, interval, varsSort,
                   varsData, filteredCrimes, selectedCategory, varsSelection,
                   isLoading, varsFlags, insights, predictiveHotspots, modal, fetches,
                   aiCalls, issued, varsLayers>>

\* generateContent of a briefing request resolves with a text.
BriefingArrives(b, text) ==
    /\ b \in briefings
    /\ briefingCache' = CacheSet(briefingCache, b.key, ReplaceNewlines(text))
    /\ briefingSubject' = CacheSet(briefingSubject, b.key, b.subject)
    /\ BriefingDone(b, BriefingHtml(ReplaceNewlines(text)))

\* Mutant of BriefingFails: the catch block stores its message in the cache.
BriefingFails_Cached(b) ==
    /\ b \in briefings
    /\ briefingCache' = CacheSet(briefingCache, b.key, FailedBriefingContent.html)
    /\ briefingSubject' = CacheSet(briefingSubject, b.key, b.subject)
    /\ BriefingDone(b, FailedBriefingContent)

\* generateContent of a briefing request rejects.
BriefingFails(b) ==
    /\ b \in briefings
    /\ UNCHANGED <<briefingCache, briefingSubject>>
    /\ BriefingDone(b, FailedBriefingContent)

-----------------------------------------------------------------------------
(* The tables: sorting (App.tsx 181-207) *)

\* The order of JavaScript's < on the strings the tables compare.
Lexical == <<"Person search", "Vehicle search", "burglary", "robbery">>

LessString(a, b) ==
    \E i \in 1..Len(Lexical), j \in 1..Len(Lexical) :
        i < j /\ Lexical[i] = a /\ Lexical[j] = b

\* valA < valB for the values a comparator takes from two rows.  The
\* datetime strings of the API have one format, so their order as strings
\* is their order in time.
LessValue(kind, key, a, b) ==
    IF kind = "crime"
    THEN IF key = "month"
         THEN ValueOf(MomentOfMonth(a.month)) < ValueOf(MomentOfMonth(b.month))
         ELSE LessString(a.category, b.category)
    ELSE IF key = "datetime"
         THEN ValueOf(MomentOfDatetime(a.datetime)) < ValueOf(MomentOfDatetime(b.datetime))
         ELSE LessString(a.type, b.type)

\* The comparator of a table returns a negative number for (a, b).
Before(kind, config, a, b) ==
    IF config.direction = "asc"
    THEN LessValue(kind, config.key, a, b)
    ELSE LessValue(kind, config.key, b, a)

\* Array.prototype.sort is stable: with a comparator that is a consistent
\* order, a row comes after the rows the comparator puts before it and
\* after the rows of equal rank that stood before it.
RowsBefore(kind, config, rows, i) ==
    { k \in 1..Len(rows) :
        \/ Before(kind, config, rows[k], rows[i])
        \/ k < i /\ ~Before(kind, config, rows[i], rows[k]) }

SortRows(kind, config, rows) ==
    LET rank == [i \in 1..Len(rows) |->
                    Cardinality(RowsBefore(kind, config, rows, i))] \o <<>>
    IN  [p \in 1..Len(rows) |->
            rows[CHOOSE i \in 1..Len(rows) : rank[i] = p - 1]] \o <<>>

\* The rows of the two tables.
sortedCrimes == SortRows("crime", crimeSortConfig, filteredCrimes)

sortedStopSearches == SortRows("stopSearch", stopSearchSortConfig, allStopSearches)

\* The stop-and-search table renders sortedStopSearches.slice(0, 50).
TableRows == 50

shownStopSearches == Slice(sortedStopSearches, TableRows)

\* Mutant of ArrayAfterSort: items.sort(compare) sorts the array itself.
ArrayAfterSort_InPlace(items, sorted) == sorted

\* [...items].sort(compare) sorts a copy: the array that was copied is as
\* it was.
ArrayAfterSort(items, sorted) == items

\* handleCrimeSort and handleStopSearchSort
handleSort(prev, key) ==
    SortConfig(key, IF prev.key = key /\ prev.direction = "desc" THEN "asc" ELSE "desc")

\* A header of the crime table is clicked and sortedCrimes is computed
\* again.  With the filter at 'all' filteredCrimes is the array allCrimes.
CrimeSortClick(key) ==
    /\ crimeSortConfig' = handleSort(crimeSortConfig, key)
    /\ filteredCrimes' =
          ArrayAfterSort(filteredCrimes,
                         SortRows("crime", crimeSortConfig', filteredCrimes))
    /\ allCrimes' = IF selectedCategory = "all" THEN filteredCrimes' ELSE allCrimes
    /\ UNCHANGED <<varsPure, interval, allStopSearches, crimeCategories, stopSearchSortConfig,
                   selectedCategory, varsSelection, isLoading, varsFlags, insights,
                   predictiveHotspots, modal, fetches, aiCalls, issued, crimeMarkers,
                   varsLayers, stopSearchCircle, varsBriefings>>

\* A header of the stop-and-search table is clicked and sortedStopSearches
\* is computed again.
StopSearchSortClick(key) ==
    /\ stopSearchSortConfig' = handleSort(stopSearchSortConfig, key)
    /\ allStopSearches' =
          ArrayAfterSort(allStopSearches,
                         SortRows("stopSearch", stopSearchSortConfig', allStopSearches))
    /\ UNCHANGED <<varsPure, interval,
                   allCrimes, crimeCategories, crimeSortConfig, filteredCrimes,
                   selectedCategory, varsSelection, isLoading, varsFlags, insights,
                   predictiveHotspots, modal, fetches, aiCalls, issued, crimeMarkers,
                   varsLayers, stopSearchCircle, varsBriefings>>

-----------------------------------------------------------------------------
(* The specifications of the application.  All start from the mounted App  *)
(* and differ in the events they follow:                                    *)
(*   SpecFeatures  refresh, filter and the three modal AI features;         *)
(*   SpecLayers    refresh, filter and the heat map buttons;                *)
(*   SpecMap       refresh, stop and search selection, popups and the      *)
(*                 briefing requests (a refresh rebuilds the markers as a   *)
(*                 change of the filter does).                              *)
(* Each follows every event that writes the variables its properties read:  *)
(* the modal, the insights and the hotspots are written by the AI features  *)
(* only, the markers and heat layers by refresh, filter and the heat map    *)
(* buttons, the briefing cache by the popupopen handlers only.  The data    *)
(* changes in all three: with the first result of fetchData, and with the   *)
(* result of the call the mount effect makes when the categories arrived.   *)

Init ==
    /\ ai \in BOOLEAN
    /\ allCrimes = <<>>
    /\ allStopSearches = <<>>
    /\ briefingCall = NoCall
    /\ jsonText = <<>>
    /\ jsonResult = NotParsed
    /\ Mounted

NextFeatures ==
    \/ \E f \in fetches, hasDates \in BOOLEAN : FetchDatesArrive(f, hasDates)
    \/ \E f \in fetches, data \in SmallData \cup LargeData : FetchDataArrive(f, data)
    \/ \E category \in {"all"} \cup Range(crimeCategories) : SelectCategory(category)
    \/ SummarizeClick
    \/ InsightsClick
    \/ PredictClick
    \/ \E call \in aiCalls, text \in AnswerTexts : SummaryArrives(call, text)
    \/ \E call \in aiCalls, text \in JsonAnswers : JsonArrives(call, text)
    \/ \E call \in aiCalls : RequestFails(call)
    \/ CloseModal

SpecFeatures == Init /\ [][NextFeatures]_vars

NextLayers ==
    \/ IntervalTick
    \/ UpdateNowClick
    \/ \E f \in fetches, hasDates \in BOOLEAN : FetchDatesArrive(f, hasDates)
    \/ \E f \in fetches : FetchFails(f)
    \/ \E f \in fetches, data \in SmallData \cup LargeData : FetchDataArrive(f, data)
    \/ \E category \in {"all"} \cup Range(crimeCategories) : SelectCategory(category)
    \/ DensityClick
    \/ RecencyClick

SpecLayers == Init /\ [][NextLayers]_vars

NextMap ==
    \/ \E f \in fetches, hasDates \in BOOLEAN : FetchDatesArrive(f, hasDates)
    \/ \E f \in fetches, data \in SmallData : FetchDataArrive(f, data)
    \/ \E stopSearch \in Range(allStopSearches) : StopSearchRowClick(stopSearch)
    \/ \E i \in 1..Len(crimeMarkers) : CrimePopupOpen(i)
    \/ CirclePopupOpen
    \/ CirclePopupClose
    \/ \E b \in briefings, text \in AnswerTexts : BriefingArrives(b, text)
    \/ \E b \in briefings : BriefingFails(b)

SpecMap == Init /\ [][NextMap]_vars

-----------------------------------------------------------------------------
(* Claims about the AI features without an API key and with malformed JSON *)

\* What a modal shows when the service is unavailable.
UnavailableContents ==
    { Content(kind, <<UnavailableMessage>>, <<>>) : kind \in {"summary", "text"} }

\* C6 (as the specification states it): when the API key is missing, every
\* AI feature completes without an LLM request and without an error, and
\* what the user is shown for the feature is the static "unavailable"
\* message: in the modal of a summary, insights or hotspots request and in
\* the popup of a briefing.
C6_UnavailableShown ==
    ~ai =>
        /\ issued.llmRequests = 0 /\ aiCalls = {} /\ briefings = {}
        /\ ~modal.isLoading
        /\ modal.content # NoContent => modal.content \in UnavailableContents
        /\ \A k \in DOMAIN briefingCache : briefingCache[k] = <<UnavailableMessage>>
        /\ \A i \in 1..Len(crimeMarkers) :
              crimeMarkers[i].popup \in
                  {loadingBriefingContent, BriefingHtml(<<UnavailableMessage>>)}
        /\ stopSearchCircle.popup \in
              {loadingBriefingContent, BriefingHtml(<<UnavailableMessage>>)}

\* A text from which no JSON array can be read, bare or in a code fence.
Malformed(text) ==
    ~ \E body \in ArrayTexts : text = body \/ text \in FencedTexts(body)

MalformedAnswers == { text \in JsonAnswers : Malformed(text) }

\* C7: when the LLM answers an insights or hotspots request with text that is
\* not valid JSON, the message of the parse failure becomes the content of
\* the modal with isLoading false, the open modal stays open, insights,
\* predictiveHotspots and their visibility flags keep their values, and no
\* LLM request is sent.
C7_ParseFailureShown ==
    [][ \A call \in aiCalls \ aiCalls', text \in MalformedAnswers :
            JsonArrives(call, text) =>
                /\ modal'.content = Content("error", <<ParseFailureMessage>>, <<>>)
                /\ ~modal'.isLoading
                /\ modal'.modal = modal.modal
                /\ insights' = insights
                /\ predictiveHotspots' = predictiveHotspots
                /\ isInsightsVisible' = isInsightsVisible
                /\ isPredictiveHotspotsVisible' = isPredictiveHotspotsVisible
                /\ insightsLayer' = insightsLayer
                /\ predictiveHotspotLayer' = predictiveHotspotLayer
                /\ issued'.llmRequests = issued.llmRequests
                /\ aiCalls' = aiCalls \ {call} ]_vars

\* The insights modal shows the parse failure of a second insights request
\* while the insights of the first one are kept and visible.
C7_Witness ==
    /\ modal.content = Content("error", <<ParseFailureMessage>>, <<>>)
    /\ ~modal.isLoading
    /\ modal.modal["insights"]
    /\ Len(insights) > 0
    /\ isInsightsVisible
    /\ aiCalls = {}

-----------------------------------------------------------------------------
(* Claims about the map layers *)

\* The positions of the crimes of a list whose coordinates parse, in order.
Positions(crimes) ==
    LET good == SelectSeq(crimes, CoordsParse)
    IN  [i \in 1..Len(good) |->
            <<good[i].location.latitude.v, good[i].location.longitude.v>>]

PointsOf(layer) == [i \in 1..Len(layer.data) |-> <<layer.data[i].lat.v, layer.data[i].lng.v>>]

-----------------------------------------------------------------------------
(* Claims about the briefing cache *)

\* The cache key of an incident: crime-<id> for a crime, and
\* ss-<datetime>-<lat>-<lng> for a stop and search.
OwnKey(subject) ==
    IF IsCrime(subject)
    THEN <<"crime", subject.id, 0, 0>>
    ELSE <<"ss", ValueOf(MomentOfDatetime(subject.datetime)),
           subject.location.latitude.v, subject.location.longitude.v>>

\* The keys at which two caches differ.
ChangedKeys(old, new) ==
    { k \in DOMAIN old \cup DOMAIN new :
        ~(k \in DOMAIN old /\ k \in DOMAIN new /\ old[k] = new[k]) }

\* The cache after the requests of a sequence completed in its order.
RECURSIVE CacheAfter(_, _)
CacheAfter(cache, completions) ==
    IF completions = <<>> THEN cache
    ELSE CacheAfter(CacheSet(cache, OwnKey(completions[1][1]), completions[1][2]),
                    Tail(completions))

\* C10: a completing briefing request changes the cache at most at the key
\* of its own incident, where it stores its text; and for two requests in
\* flight for different incidents the cache after both completed is the same
\* in either order.
C10_OwnKeyOnly ==
    /\ [][ \A b \in briefings :
              b \notin briefings' =>
                  /\ ChangedKeys(briefingCache, briefingCache') \subseteq {OwnKey(b.subject)}
                  /\ \A text \in AnswerTexts :
                        BriefingArrives(b, text) =>
                            briefingCache'[OwnKey(b.subject)] = ReplaceNewlines(text) ]_vars
    /\ [] \A b1 \in briefings, b2 \in briefings :
              b1.subject # b2.subject =>
                  \A t1 \in AnswerTexts, t2 \in AnswerTexts :
                      CacheAfter(briefingCache, << <<b1.subject, t1>>, <<b2.subject, t2>> >>)
                        = CacheAfter(briefingCache, << <<b2.subject, t2>>, <<b1.subject, t1>> >>)

\* The first request is still in flight while a later request, for another
\* incident and sent while the first was waiting, has stored its briefing.
C10_Witness ==
    /\ ai
    /\ \E b \in briefings :
          /\ b.id = 1
          /\ \E k \in DOMAIN briefingCache : k # OwnKey(b.subject)
          /\ OwnKey(b.subject) \notin DOMAIN briefingCache

-----------------------------------------------------------------------------
(* SpecTwins: the map over a delivery in which two stop-and-search records *)
(* of one encounter (a person and the vehicle, searched at the same time   *)
(* and place) are distinct records with one datetime and one location.     *)

NearStopTwin == [NearStop EXCEPT !.id = 4, !.type = "Vehicle search"]

TwinData ==
    { [crimes |-> <<HighStreet, LowRoad>>,
       stopSearches |-> <<NearStop, NearStopTwin>>,
       categories |-> Categories] }

NextTwins ==
    \/ \E f \in fetches, hasDates \in BOOLEAN : FetchDatesArrive(f, hasDates)
    \/ \E f \in fetches, data \in TwinData : FetchDataArrive(f, data)
    \/ \E category \in {"all"} \cup Range(crimeCategories) : SelectCategory(category)
    \/ \E stopSearch \in Range(allStopSearches) : StopSearchRowClick(stopSearch)
    \/ \E i \in 1..Len(crimeMarkers) : CrimePopupOpen(i)
    \/ CirclePopupOpen
    \/ CirclePopupClose
    \/ \E b \in briefings, text \in AnswerTexts : BriefingArrives(b, text)
    \/ \E b \in briefings : BriefingFails(b)

SpecTwins == Init /\ [][NextTwins]_vars

\* The incidents that can have a popup: the crimes with a marker and the
\* stop-and-search records for which a circle is drawn.
PopupIncidents ==
    { crime \in Range(allCrimes) : HasPosition(crime) }
        \cup { stopSearch \in Range(allStopSearches) :
                  StopSearchCircle(<<stopSearch>>).onMap }

\* The cache key the popupopen handler of an incident computes.
KeyOf(incident) ==
    IF IsCrime(incident)
    THEN CrimeCacheKey(incident)
    ELSE StopSearchCacheKey(incident, parseFloat(incident.location.latitude),
                            parseFloat(incident.location.longitude))

\* What the open popup of the circle shows was generated for the record
\* the circle was drawn for.
CirclePopupShowsOwnBriefing ==
    (stopSearchCircle.onMap /\ stopSearchCircle.popup.kind = "briefing") =>
        briefingSubject[KeyOf(stopSearchCircle.stopSearch[1])]
            = stopSearchCircle.stopSearch[1]

\* The same for the popups of the crime markers.
MarkerPopupsShowOwnBriefing ==
    \A i \in 1..Len(crimeMarkers) :
        crimeMarkers[i].popup.kind = "briefing" =>
            briefingSubject[KeyOf(crimeMarkers[i].crime)] = crimeMarkers[i].crime

\* C11: two distinct incidents never have the same cache key, and a popup
\* that shows a briefing shows one that was generated for its own incident.
C11_KeyPerIncident ==
    /\ \A a \in PopupIncidents, b \in PopupIncidents : a # b => KeyOf(a) # KeyOf(b)
    /\ MarkerPopupsShowOwnBriefing
    /\ CirclePopupShowsOwnBriefing

-----------------------------------------------------------------------------
(* Overlapping refreshes (SpecLayers) *)

\* The deliveries of the police API in SpecLayers.
Deliveries == SmallData \cup LargeData

\* C12: a timer tick starts a refresh whether or not another is in flight,
\* and leaves the refreshes in flight as they are; whenever a refresh
\* completes, whatever its place in the order of starts, the crimes and
\* stop-and-searches held and displayed are the ones it delivered.
C12_LastCompletedShown ==
    /\ [] ((interval /\ issued.fetches < MaxFetches) => ENABLED IntervalTick)
    /\ [][ IntervalTick =>
              /\ fetches \subseteq fetches'
              /\ Cardinality(fetches') = Cardinality(fetches) + 1 ]_vars
    /\ [][ \A f \in fetches, data \in Deliveries :
              FetchDataArrive(f, data) =>
                  /\ allCrimes' = data.crimes
                  /\ allStopSearches' = data.stopSearches
                  /\ filteredCrimes' = FilterCrimes(data.crimes, selectedCategory)
                  /\ crimeMarkers' = CrimeMarkers(filteredCrimes') ]_vars

\* A refresh that started later has delivered its data while a refresh
\* that started earlier is still waiting for its own.
C12_Witness ==
    /\ allCrimes # <<>>
    /\ \E f \in fetches :
          /\ f.pc = "data"
          /\ \E id \in (f.id + 1)..issued.fetches : \A g \in fetches : g.id # id

\* A refresh ends without a rejection: its data arrive, or the list of
\* available dates is empty.
RefreshCompletes ==
    \/ \E f \in fetches, data \in Deliveries : FetchDataArrive(f, data)
    \/ \E f \in fetches : FetchDatesArrive(f, FALSE)

\* C13 as stated: a rejected request of a refresh leaves the fetched crimes
\* and stop-and-searches unchanged and leaves isLoading true, and isLoading
\* becomes false only when a refresh completes.
C13_RejectionStaysLoading ==
    /\ [][ \A f \in fetches :
              FetchFails(f) =>
                  /\ UNCHANGED <<allCrimes, allStopSearches, filteredCrimes>>
                  /\ isLoading' = TRUE ]_vars
    /\ [][ (isLoading /\ ~isLoading') => RefreshCompletes ]_vars

\* C13 amended: a rejected request of a refresh changes neither the fetched
\* crimes and stop-and-searches nor isLoading; isLoading becomes false only
\* when a refresh completes; and it is false while a refresh is in flight
\* only when another refresh has ended.
C13_RejectionChangesNothing ==
    /\ [][ \A f \in fetches :
              FetchFails(f) =>
                  UNCHANGED <<allCrimes, allStopSearches, filteredCrimes, isLoading>> ]_vars
    /\ [][ (isLoading /\ ~isLoading') => RefreshCompletes ]_vars
    /\ [] \A f \in fetches :
              ~isLoading =>
                  \E id \in 0..issued.fetches :
                      id # f.id /\ \A g \in fetches : g.id # id

\* The only refresh left has rejected: nothing is in flight, the data of an
\* earlier refresh are still held, and isLoading is true.
C13_Witness ==
    /\ fetches = {}
    /\ isLoading
    /\ allCrimes # <<>>

-----------------------------------------------------------------------------
(* SpecTables: refresh, category filter, the sort of the two tables and    *)
(* the trend summary.                                                      *)

CrimeSortKeys == {"month", "category"}

StopSearchSortKeys == {"datetime", "type"}

NextTables ==
    \/ \E f \in fetches, hasDates \in BOOLEAN : FetchDatesArrive(f, hasDates)
    \/ \E f \in fetches, data \in SmallData : FetchDataArrive(f, data)
    \/ \E category \in {"all"} \cup Range(crimeCategories) : SelectCategory(category)
    \/ \E key \in CrimeSortKeys : CrimeSortClick(key)
    \/ \E key \in StopSearchSortKeys : StopSearchSortClick(key)
    \/ SummarizeClick
    \/ \E call \in aiCalls, text \in AnswerTexts : SummaryArrives(call, text)
    \/ CloseModal

SpecTables == Init /\ [][NextTables]_vars

\* C14: allCrimes and allStopSearches change, in content or in order, only
\* in a step in which a refresh completes, and are then the two lists that
\* refresh fetched; sorting, filtering and generating leave them as they are.
C14_ListsReplacedOnlyByRefresh ==
    [][ (allCrimes' # allCrimes \/ allStopSearches' # allStopSearches) =>
            \E f \in fetches, data \in Deliveries :
                /\ FetchDataArrive(f, data)
                /\ allCrimes' = data.crimes
                /\ allStopSearches' = data.stopSearches ]_vars

\* Both tables show their rows in another order than the fetched lists
\* have, under the filter 'all', after a summary was generated.
C14_Witness ==
    /\ selectedCategory = "all"
    /\ sortedCrimes # allCrimes
    /\ sortedStopSearches # allStopSearches
    /\ crimeSortConfig = SortConfig("category", "desc")
    /\ stopSearchSortConfig = SortConfig("datetime", "asc")
    /\ modal.content # NoContent

-----------------------------------------------------------------------------
(* SpecLifecycle: the refreshes of an App from mount to teardown *)

NextLifecycle ==
    \/ IntervalTick
    \/ UpdateNowClick
    \/ \E f \in fetches, hasDates \in BOOLEAN : FetchDatesArrive(f, hasDates)
    \/ \E f \in fetches : FetchFails(f)
    \/ \E f \in fetches, data \in SmallData : FetchDataArrive(f, data)
    \/ Unmount

SpecLifecycle == Init /\ [][NextLifecycle]_vars

\* A call of fetchData begins in this step (the call of the mount is the
\* one in flight in the initial state).
RefreshStarts == issued.fetches' # issued.fetches

\* After teardown no refresh starts.
TeardownStopsRefreshes == [][ ~interval => ~RefreshStarts ]_vars

\* The re-run of the mount effect: a refresh completes, crimeCategories gets
\* another length, and fetchData is called again at once.
RefreshOnRerun ==
    /\ Len(crimeCategories') # Len(crimeCategories)
    /\ \E f \in fetches, data \in SmallData : FetchDataArrive(f, data)

\* C15: after the mount a refresh starts only in a tick of the timer or in
\* a click on Update Now, and after teardown none starts.
C15_RefreshStartsOnly ==
    /\ [][ RefreshStarts => (IntervalTick \/ UpdateNowClick) ]_vars
    /\ TeardownStopsRefreshes

\* What holds instead: the re-run of the mount effect is a further start.
RefreshStartsAlsoOnRerun ==
    /\ [][ RefreshStarts => (IntervalTick \/ UpdateNowClick \/ RefreshOnRerun) ]_vars
    /\ TeardownStopsRefreshes

-----------------------------------------------------------------------------
(* Briefing requests that fail, and cached briefings (SpecMap) *)

\* A popupopen handler sends a request to the LLM in this step.
BriefingRequested == issued.briefings' # issued.briefings

\* A popup opens: of a crime marker or of the circle.
SomePopupOpens ==
    \/ \E i \in 1..Len(crimeMarkers) : CrimePopupOpen(i)
    \/ CirclePopupOpen

\* What the popup a handler was called for shows after the step.
PopupAfter(b) ==
    IF b.target = "marker" THEN crimeMarkers'[b.index].popup ELSE stopSearchCircle'.popup

\* C16: when a briefing request fails, its popup shows 'Failed to load
\* briefing.', nothing is stored in the cache, the key of the incident is
\* afterwards in neither the cache nor the loading set, and no request is
\* sent in that step; a request is sent only in a step in which a popup opens.
C16_FailureNotCachedNotRetried ==
    /\ [][ \A b \in briefings :
              BriefingFails(b) =>
                  /\ b.attached => PopupAfter(b) = FailedBriefingContent
                  /\ UNCHANGED briefingCache
                  /\ b.key \notin DOMAIN briefingCache'
                  /\ b.key \notin briefingLoading'
                  /\ briefings' = briefings \ {b}
                  /\ ~BriefingRequested ]_vars
    /\ [][ BriefingRequested => SomePopupOpens ]_vars

\* The request for the briefing of a crime has failed: its popup shows the
\* failure, and its key is neither cached nor loading.
C16_Witness ==
    /\ ai
    /\ \E i \in 1..Len(crimeMarkers) :
          /\ crimeMarkers[i].crime = HighStreet
          /\ crimeMarkers[i].popup = FailedBriefingContent
          /\ KeyOf(HighStreet) \notin DOMAIN briefingCache
          /\ KeyOf(HighStreet) \notin briefingLoading

\* C17: a cached briefing is never changed or removed, whatever the step
\* (a refresh included); and a popup that opens for an incident whose key is
\* cached shows the cached text, and no request is sent.
C17_CachedBriefingKept ==
    /\ [][ \A k \in DOMAIN briefingCache :
              k \in DOMAIN briefingCache' /\ briefingCache'[k] = briefingCache[k] ]_vars
    /\ [][ \A i \in 1..Len(crimeMarkers) :
              (KeyOf(crimeMarkers[i].crime) \in DOMAIN briefingCache /\ CrimePopupOpen(i)) =>
                  /\ crimeMarkers'[i].popup =
                        BriefingHtml(briefingCache[KeyOf(crimeMarkers[i].crime)])
                  /\ ~BriefingRequested ]_vars
    /\ [][ (/\ stopSearchCircle.onMap
            /\ KeyOf(stopSearchCircle.stopSearch[1]) \in DOMAIN briefingCache
            /\ CirclePopupOpen) =>
                  /\ stopSearchCircle'.popup =
                        BriefingHtml(briefingCache[KeyOf(stopSearchCircle.stopSearch[1])])
                  /\ ~BriefingRequested ]_vars

\* A refresh has replaced the lists since a briefing was cached: the cache
\* holds the briefing of a crime that is no longer among allCrimes, and the
\* popup of a crime that is there shows its cached briefing.
C17_Witness ==
    /\ ai
    /\ KeyOf(HighStreet) \in DOMAIN briefingCache
    /\ HighStreet \notin Range(allCrimes)
    /\ \E i \in 1..Len(crimeMarkers) :
          /\ KeyOf(crimeMarkers[i].crime) \in DOMAIN briefingCache
          /\ crimeMarkers[i].popup =
                BriefingHtml(briefingCache[KeyOf(crimeMarkers[i].crime)])

-----------------------------------------------------------------------------
(* isLoading and the refreshes in flight (SpecLayers) *)

\* Whenever a refresh is in flight isLoading is true.
LoadingWhileInFlight == fetches # {} => isLoading

\* C18: whenever a refresh is in flight isLoading is true (Update Now is
\* disabled), and isLoading becomes false only in a step after which no
\* refresh is in flight.
C18_LoadingWhileInFlight ==
    /\ [] LoadingWhileInFlight
    /\ [][ (isLoading /\ ~isLoading') => fetches' = {} ]_vars

-----------------------------------------------------------------------------
(* The insight markers (SpecFeatures) *)

\* An insight marker stands at the parsed coordinates of a crime on the map
\* whose street name contains the area of the insight.
AtMatchingCrime(m) ==
    \E j \in 1..Len(filteredCrimes) :
        /\ Includes(filteredCrimes[j].location.street, m.area)
        /\ m.lat = parseFloat(filteredCrimes[j].location.latitude)
        /\ m.lng = parseFloat(filteredCrimes[j].location.longitude)
        /\ ~isNaN(m.lat) /\ ~isNaN(m.lng)

\* C19: every insight marker on the map stands at the parsed coordinates of
\* a crime whose street name contains its area, and none stands at the
\* default location.
C19_InsightsOnlyAtCrimes ==
    \A i \in 1..Len(insightsLayer) :
        /\ AtMatchingCrime(insightsLayer[i])
        /\ insightsLayer[i].placed # "default"

\* The part of C19 that holds: a marker that has a matching crime stands at
\* the coordinates of the first such crime, and an insight whose first
\* matching crime has coordinates that do not parse has no marker.
InsightsWithCrimeAtCrime ==
    /\ \A i \in 1..Len(insightsLayer) :
          insightsLayer[i].placed = "crime" => AtMatchingCrime(insightsLayer[i])
    /\ \A k \in 1..Len(insights) :
          LET relevantCrime == Find(filteredCrimes, insights[k].area)
          IN  (relevantCrime # <<>> /\ ~HasPosition(relevantCrime[1])) =>
                  \A i \in 1..Len(insightsLayer) : insightsLayer[i].area # insights[k].area

-----------------------------------------------------------------------------
(* SpecOverlays: the four overlays of the map and their buttons *)

NextOverlays ==
    \/ \E f \in fetches, hasDates \in BOOLEAN : FetchDatesArrive(f, hasDates)
    \/ \E f \in fetches, data \in SmallData \cup LargeData : FetchDataArrive(f, data)
    \/ DensityClick
    \/ RecencyClick
    \/ InsightsClick
    \/ PredictClick
    \/ \E call \in aiCalls, text \in JsonAnswers : JsonArrives(call, text)
    \/ CloseModal

SpecOverlays == Init /\ [][NextOverlays]_vars

\* C20: a density heat layer is on the map only if isDensityHeatmapVisible,
\* a recency heat layer only if isRecencyHeatmapVisible and not
\* isDensityHeatmapVisible, never both; insight markers are there only if
\* isInsightsVisible and hotspot markers only if isPredictiveHotspotsVisible;
\* and a step that turns a flag off leaves nothing of its layer on the map.
C20_LayersMirrorFlags ==
    /\ [] /\ densityHeatLayer.onMap => isDensityHeatmapVisible
          /\ recencyHeatLayer.onMap =>
                (isRecencyHeatmapVisible /\ ~isDensityHeatmapVisible)
          /\ ~(densityHeatLayer.onMap /\ recencyHeatLayer.onMap)
          /\ Len(insightsLayer) > 0 => isInsightsVisible
          /\ Len(predictiveHotspotLayer) > 0 => isPredictiveHotspotsVisible
    /\ [][ /\ (isDensityHeatmapVisible /\ ~isDensityHeatmapVisible') =>
                  ~densityHeatLayer'.onMap
           /\ (isRecencyHeatmapVisible /\ ~isRecencyHeatmapVisible') =>
                  ~recencyHeatLayer'.onMap
           /\ (isInsightsVisible /\ ~isInsightsVisible') => insightsLayer' = <<>>
           /\ (isPredictiveHotspotsVisible /\ ~isPredictiveHotspotsVisible') =>
                  predictiveHotspotLayer' = <<>> ]_vars

\* The density layer was on the map and was taken off; the recency layer
\* is on the map with insight and hotspot markers.
C20_Witness ==
    /\ densityHeatLayer.exists /\ ~densityHeatLayer.onMap
    /\ recencyHeatLayer.onMap
    /\ Len(insightsLayer) > 0
    /\ Len(predictiveHotspotLayer) > 0

\* The overlays were shown and their flags turned off again.
C20_WitnessOff ==
    /\ densityHeatLayer.exists /\ recencyHeatLayer.exists
    /\ ~isDensityHeatmapVisible /\ ~isRecencyHeatmapVisible
    /\ Len(insights) > 0 /\ ~isInsightsVisible
    /\ Len(predictiveHotspots) > 0 /\ ~isPredictiveHotspotsVisible

-----------------------------------------------------------------------------
(* SpecRows: the rows of the two tables, with a delivery of more           *)
(* stop-and-search records than the table shows.                           *)

ManyStops ==
    { [crimes |-> <<LowRoad, HighStreet, NoLongitude>>,
       stopSearches |-> Cycle(<<NearStop, FarStop, NearStopTwin>>, TableRows + 1),
       categories |-> Categories] }

NextRows ==
    \/ \E f \in fetches, hasDates \in BOOLEAN : FetchDatesArrive(f, hasDates)
    \/ \E f \in fetches, data \in SmallData \cup ManyStops : FetchDataArrive(f, data)
    \/ \E category \in {"all"} \cup Range(crimeCategories) : SelectCategory(category)
    \/ \E key \in CrimeSortKeys : CrimeSortClick(key)
    \/ \E key \in StopSearchSortKeys : StopSearchSortClick(key)

SpecRows == Init /\ [][NextRows]_vars

\* How often a row occurs in a list.
Count(rows, row) == Cardinality({ i \in 1..Len(rows) : rows[i] = row })

\* No row stands before a row that the configured order puts before it.
InOrder(kind, config, rows) ==
    \A i \in 1..Len(rows), j \in 1..Len(rows) :
        i < j => ~Before(kind, config, rows[j], rows[i])

\* The crimes that pass the category filter.
PassFilter(crime) == selectedCategory = "all" \/ crime.category = selectedCategory

-----------------------------------------------------------------------------
(* SpecSelection: the selection of a crime or a stop-and-search from the   *)
(* tables and from the map.                                                 *)

\* A crime that has a persistent_id.
MarketPlace ==
    [id |-> 5, persistent_id |-> 105, category |-> "robbery",
     month |-> Month(2024, 6), location |-> At(Near, "Market Place")]

SelectionData ==
    { [crimes |-> <<HighStreet, MarketPlace, BadLatitude>>,
       stopSearches |-> <<NearStop, BadStop>>, categories |-> Categories],
      [crimes |-> <<LowRoad, HighStreet>>,
       stopSearches |-> <<FarStop>>, categories |-> Categories] }

NextSelection ==
    \/ \E f \in fetches, hasDates \in BOOLEAN : FetchDatesArrive(f, hasDates)
    \/ \E f \in fetches, data \in SelectionData : FetchDataArrive(f, data)
    \/ \E category \in {"all"} \cup Range(crimeCategories) : SelectCategory(category)
    \/ \E crime \in Range(filteredCrimes) : CrimeRowClick(crime)
    \/ \E stopSearch \in Range(allStopSearches) : StopSearchRowClick(stopSearch)
    \/ \E i \in 1..Len(crimeMarkers) : MarkerClick(i)
    \/ MapClick
    \/ CirclePopupClose

SpecSelection == Init /\ [][NextSelection]_vars

\* C22: after a click on a crime marker selectedCrimeId is the id of the
\* marker's crime and no stop-and-search is selected; after a click on the
\* background of the map nothing is selected.
C22_MarkerClickSelects ==
    /\ [][ \A i \in 1..Len(crimeMarkers) :
              MarkerClick(i) =>
                  /\ selectedCrimeId' = <<crimeMarkers[i].crimeId>>
                  /\ selectedStopSearch' = <<>> ]_vars
    /\ [][ MapClick => (selectedCrimeId' = <<>> /\ selectedStopSearch' = <<>>) ]_vars

\* What holds instead: a click on a marker, like one on the background,
\* leaves nothing selected; a click on a row of the crime table selects
\* the crime by persistent_id, or by id when there is none.
ClicksOnMapDeselect ==
    /\ [][ \A i \in 1..Len(crimeMarkers) :
              MarkerClick(i) => (selectedCrimeId' = <<>> /\ selectedStopSearch' = <<>>) ]_vars
    /\ [][ MapClick => (selectedCrimeId' = <<>> /\ selectedStopSearch' = <<>>) ]_vars
    /\ [][ \A crime \in Range(filteredCrimes) :
              CrimeRowClick(crime) =>
                  /\ selectedCrimeId' = <<CrimeId(crime)>>
                  /\ selectedStopSearch' = <<>> ]_vars

-----------------------------------------------------------------------------
(* SpecModals: the AI features with the modal in front of the buttons.  An *)
(* open modal covers the page (Modal.tsx 14-17), so a feature button is    *)
(* clicked only when no modal is open.                                     *)

NoModalOpen == \A k \in ModalKeys : ~modal.modal[k]

NextModals ==
    \/ \E f \in fetches, hasDates \in BOOLEAN : FetchDatesArrive(f, hasDates)
    \/ \E f \in fetches, data \in SmallData : FetchDataArrive(f, data)
    \/ NoModalOpen /\ SummarizeClick
    \/ NoModalOpen /\ InsightsClick
    \/ NoModalOpen /\ PredictClick
    \/ \E call \in aiCalls, text \in AnswerTexts : SummaryArrives(call, text)
    \/ \E call \in aiCalls, text \in JsonAnswers : JsonArrives(call, text)
    \/ \E call \in aiCalls : RequestFails(call)
    \/ CloseModal

SpecModals == Init /\ [][NextModals]_vars

\* The request of an invocation of handleAIFeature resolves or rejects.
Settles(call) ==
    \/ \E text \in AnswerTexts : SummaryArrives(call, text)
    \/ \E text \in JsonAnswers : JsonArrives(call, text)
    \/ RequestFails(call)

\* A modal is open that an invocation later than this one opened: the
\* buttons are reached only with no modal open, and a later request was sent.
LaterModalOpen(call) == call.id < issued.aiCalls /\ ~NoModalOpen

\* C23: a result or an error of an earlier invocation that arrives while the
\* modal of a later invocation is open changes neither the content nor
\* the isLoading flag of that modal.
C23_EarlierResultNotShown ==
    [][ \A call \in aiCalls :
          (LaterModalOpen(call) /\ Settles(call)) =>
              /\ modal'.content = modal.content
              /\ modal'.isLoading = modal.isLoading ]_vars

\* What holds instead: whichever invocation it belongs to, a result or an
\* error that arrives becomes the content and ends the loading state.
EveryResultShown ==
    [][ \A call \in aiCalls :
          Settles(call) => (~modal'.isLoading /\ modal'.content # NoContent) ]_vars

\* The insights modal is open and shows the summary of the trends.
SummaryInInsightsModal ==
    /\ modal.modal["insights"]
    /\ ~modal.isLoading
    /\ modal.content.kind = "summary"

-----------------------------------------------------------------------------
(* SpecPopups: the popups of the crime markers, with every briefing         *)
(* request answered in the end.                                             *)

NextPopups ==
    \/ \E f \in fetches, hasDates \in BOOLEAN : FetchDatesArrive(f, hasDates)
    \/ \E f \in fetches, data \in SmallData : FetchDataArrive(f, data)
    \/ \E category \in {"all"} \cup Range(crimeCategories) : SelectCategory(category)
    \/ \E i \in 1..Len(crimeMarkers) : CrimePopupOpen(i)
    \/ \E b \in briefings, text \in AnswerTexts : BriefingArrives(b, text)
    \/ \E b \in briefings : BriefingFails(b)

\* The request of a popupopen handler resolves or rejects.
BriefingCompletes(b) ==
    \/ \E text \in AnswerTexts : BriefingArrives(b, text)
    \/ BriefingFails(b)

\* No request of the LLM stays unanswered.
RequestsComplete == WF_vars(\E b \in briefings : BriefingCompletes(b))

SpecPopups == Init /\ [][NextPopups]_vars /\ RequestsComplete

\* The i-th marker has an open popup that shows 'Generating briefing...'.
ShowsPlaceholder(i) ==
    /\ i \in 1..Len(crimeMarkers)
    /\ crimeMarkers[i].opened
    /\ crimeMarkers[i].popup = loadingBriefingContent

\* The handler that waits for the request of a key has the popup of the
\* i-th marker.
HandlerHolds(i) ==
    \E b \in briefings : b.target = "marker" /\ b.index = i /\ b.attached

\* C24: an open popup of a crime that shows the placeholder shows a
\* briefing or the failure message in the end (or is gone with its marker),
\* also when it was opened while the request for its key was in flight.
C24_PlaceholderReplaced ==
    \A i \in 1..MaxLen : ShowsPlaceholder(i) ~> ~ShowsPlaceholder(i)

\* What holds instead: the popup whose handler sent the request stops
\* showing the placeholder.
PlaceholderReplacedForRequester ==
    \A i \in 1..MaxLen :
        (ShowsPlaceholder(i) /\ HandlerHolds(i)) ~> ~ShowsPlaceholder(i)

\* An open popup shows the placeholder, no request is in flight, and the
\* briefing of its crime is in the cache.
PlaceholderOverCachedBriefing ==
    \E i \in 1..Len(crimeMarkers) :
        /\ ShowsPlaceholder(i)
        /\ briefings = {}
        /\ CrimeCacheKey(crimeMarkers[i].crime) \in DOMAIN briefingCache

-----------------------------------------------------------------------------
(* SpecCircle: the selection of a stop-and-search and its circle, with     *)
(* every briefing request answered in the end.  The effect opens the popup *)
(* of the circle before it registers the popupopen handler, so no step of  *)
(* the program calls the handler; it runs when the map fires popupopen on  *)
(* the circle afterwards.                                                   *)

NextCircle ==
    \/ \E f \in fetches, hasDates \in BOOLEAN : FetchDatesArrive(f, hasDates)
    \/ \E f \in fetches, data \in SmallData : FetchDataArrive(f, data)
    \/ \E stopSearch \in Range(allStopSearches) : StopSearchRowClick(stopSearch)
    \/ CirclePopupOpen
    \/ CirclePopupClose
    \/ \E b \in briefings, text \in AnswerTexts : BriefingArrives(b, text)
    \/ \E b \in briefings : BriefingFails(b)

SpecCircle == Init /\ [][NextCircle]_vars /\ RequestsComplete

\* The coordinates of a stop-and-search parse.
HasCircle(stopSearch) == StopSearchCircle(<<stopSearch>>).onMap

\* The circle of a stop-and-search is on the map.
CircleOf(stopSearch) ==
    stopSearchCircle.onMap /\ stopSearchCircle.stopSearch = <<stopSearch>>

\* A stop-and-search with coordinates is selected and its popup does not
\* show a briefing or the failure message.
AwaitsBriefing(stopSearch) ==
    /\ selectedStopSearch = <<stopSearch>>
    /\ HasCircle(stopSearch)
    /\ ~(CircleOf(stopSearch) /\ stopSearchCircle.popup # loadingBriefingContent)

\* The stop-and-search records of the deliveries.
DeliveredStopSearches == UNION { Range(data.stopSearches) : data \in SmallData }

\* C25: the selection of a stop-and-search whose coordinates parse draws
\* its circle with its popup, and the popup shows a briefing or the failure
\* message for that selection in the end.
C25_SelectionLeadsToBriefing ==
    /\ [][ \A stopSearch \in Range(allStopSearches) :
              (HasCircle(stopSearch) /\ StopSearchRowClick(stopSearch)) =>
                  (stopSearchCircle'.onMap /\ stopSearchCircle'.stopSearch = <<stopSearch>>) ]_vars
    /\ \A stopSearch \in DeliveredStopSearches :
          AwaitsBriefing(stopSearch) ~> ~AwaitsBriefing(stopSearch)

\* What holds instead: the selection of a stop-and-search that was not
\* selected draws the circle with the placeholder in its popup and sends no
\* request; a request for the circle is sent in a step of its popupopen
\* handler only, and when that request completes with the circle still on
\* the map its popup stops showing the placeholder.
SelectionDrawsPlaceholder ==
    /\ [][ \A stopSearch \in Range(allStopSearches) :
              (/\ HasCircle(stopSearch)
               /\ selectedStopSearch # <<stopSearch>>
               /\ StopSearchRowClick(stopSearch)) =>
                  /\ stopSearchCircle' = StopSearchCircle(<<stopSearch>>)
                  /\ stopSearchCircle'.popup = loadingBriefingContent
                  /\ ~BriefingRequested ]_vars
    /\ [][ BriefingRequested => CirclePopupOpen ]_vars
    /\ [][ \A b \in briefings :
              (b.target = "circle" /\ b.attached /\ BriefingCompletes(b)) =>
                  stopSearchCircle'.popup # loadingBriefingContent ]_vars

\* A stop-and-search is selected whose circle is not on the map.
SelectedWithoutCircle ==
    \E stopSearch \in Range(allStopSearches) :
        /\ selectedStopSearch = <<stopSearch>>
        /\ HasCircle(stopSearch)
        /\ ~stopSearchCircle.onMap

-----------------------------------------------------------------------------
(* SpecLoading: the popups and their requests over the delivery with the  *)
(* two records of one encounter, without the category filter.             *)

NextLoading ==
    \/ \E f \in fetches, hasDates \in BOOLEAN : FetchDatesArrive(f, hasDates)
    \/ \E f \in fetches, data \in TwinData : FetchDataArrive(f, data)
    \/ \E stopSearch \in Range(allStopSearches) : StopSearchRowClick(stopSearch)
    \/ \E i \in 1..Len(crimeMarkers) : CrimePopupOpen(i)
    \/ CirclePopupOpen
    \/ CirclePopupClose
    \/ \E b \in briefings, text \in AnswerTexts : BriefingArrives(b, text)
    \/ \E b \in briefings : BriefingFails(b)

SpecLoading == Init /\ [][NextLoading]_vars

\* The briefing requests in flight for a cache key.
InFlight(cacheKey) == { b \in briefings : b.key = cacheKey }

\* C26: at most one briefing request is in flight per cache key, a key is in
\* the loading set exactly while a request for it is in flight, and a popup
\* that opens for a key of the loading set sends no request.
C26_OneRequestPerKey ==
    /\ [] \A b \in briefings : InFlight(b.key) = {b}
    /\ [] (briefingLoading = { b.key : b \in briefings })
    /\ [][ \A i \in 1..Len(crimeMarkers) :
              (KeyOf(crimeMarkers[i].crime) \in briefingLoading /\ CrimePopupOpen(i)) =>
                  ~BriefingRequested ]_vars
    /\ [][ (/\ stopSearchCircle.onMap
            /\ KeyOf(stopSearchCircle.stopSearch[1]) \in briefingLoading
            /\ CirclePopupOpen) => ~BriefingRequested ]_vars
    /\ [][ \A b \in briefings :
              BriefingCompletes(b) =>
                  (b.key \notin briefingLoading' /\ InFlight(b.key)' = {}) ]_vars

\* A popup was opened for a key of the loading set: the one request for the
\* key belongs to the handler of another popup.
C26_Witness ==
    /\ \E i \in 1..Len(crimeMarkers) :
          /\ crimeMarkers[i].opened
          /\ KeyOf(crimeMarkers[i].crime) \in briefingLoading
          /\ ~HandlerHolds(i)
          /\ Cardinality(InFlight(KeyOf(crimeMarkers[i].crime))) = 1
    /\ Cardinality(briefings) = 2

-----------------------------------------------------------------------------
(* Claims about the selection, checked under SpecSelection *)

\* C27: a crime and a stop-and-search are never selected together, and a
\* click on a row of one table deselects what was selected in the other.
C27_OneSelection ==
    /\ [] ~(selectedCrimeId # <<>> /\ selectedStopSearch # <<>>)
    /\ [][ \A crime \in Range(filteredCrimes) :
              CrimeRowClick(crime) => selectedStopSearch' = <<>> ]_vars
    /\ [][ \A stopSearch \in Range(allStopSearches) :
              StopSearchRowClick(stopSearch) => selectedCrimeId' = <<>> ]_vars

\* A crime is selected from the table and no stop-and-search is.
C27_Witness ==
    /\ selectedCrimeId # <<>>
    /\ selectedStopSearch = <<>>
    /\ crimeMarkers # <<>>
    /\ allStopSearches # <<>>

-----------------------------------------------------------------------------
(* Claims about the modal flags, checked under SpecFeatures *)

\* The flags that are true.
OpenModals == { k \in ModalKeys : modal.modal[k] }

\* A feature sends its request in this step.
FeatureRequested == issued.aiCalls' # issued.aiCalls

\* After the step the modal of the feature is the one that is open; it is
\* loading with no content when the step ends at the await of the request.
Opens(key) ==
    /\ modal'.modal = [k \in ModalKeys |-> k = key]
    /\ FeatureRequested => (modal'.isLoading /\ modal'.content = NoContent)

\* C28: at most one modal flag is true; a feature that starts makes the
\* flag of its modal the only true one and sets isLoading; closing makes
\* all flags false and leaves content and isLoading as they are.
C28_OneModal ==
    /\ [] (Cardinality(OpenModals) <= 1)
    /\ [][ SummarizeClick => Opens("trend") ]_vars
    /\ [][ (Len(insights) = 0 /\ InsightsClick) => Opens("insights") ]_vars
    /\ [][ (Len(predictiveHotspots) = 0 /\ PredictClick) => Opens("predictive") ]_vars
    /\ [][ CloseModal =>
              /\ \A k \in ModalKeys : ~modal'.modal[k]
              /\ modal'.content = modal.content
              /\ modal'.isLoading = modal.isLoading ]_vars

\* A modal was closed while its request was in flight: no flag is true and
\* isLoading is.
C28_Witness ==
    /\ OpenModals = {}
    /\ modal.isLoading
    /\ aiCalls # {}

-----------------------------------------------------------------------------
(* Claims about the heat map flags, checked under SpecLayers *)

\* C29: the density and the recency flag are never both true; a click that
\* shows one heat map hides the other, and a click that hides one leaves
\* the other hidden.
C29_OneHeatmap ==
    /\ [] ~(isDensityHeatmapVisible /\ isRecencyHeatmapVisible)
    /\ [][ DensityClick =>
              /\ isDensityHeatmapVisible' = ~isDensityHeatmapVisible
              /\ ~isRecencyHeatmapVisible' ]_vars
    /\ [][ RecencyClick =>
              /\ isRecencyHeatmapVisible' = ~isRecencyHeatmapVisible
              /\ ~isDensityHeatmapVisible' ]_vars

\* The recency heat map is shown in place of the density heat map.
C29_Witness ==
    /\ isRecencyHeatmapVisible
    /\ ~isDensityHeatmapVisible
    /\ recencyHeatLayer.onMap
    /\ ~densityHeatLayer.onMap

-----------------------------------------------------------------------------
(* SpecCategories: refreshes whose answers differ in the category list.    *)

\* The category list of a later answer of the API.
LaterCategories == <<"robbery">>

CategoryData ==
    { [crimes |-> <<HighStreet, LowRoad>>,
       stopSearches |-> <<NearStop>>, categories |-> Categories],
      [crimes |-> <<LowRoad, NoLongitude>>,
       stopSearches |-> <<FarStop>>, categories |-> LaterCategories] }

NextCategories ==
    \/ IntervalTick
    \/ UpdateNowClick
    \/ \E f \in fetches, hasDates \in BOOLEAN : FetchDatesArrive(f, hasDates)
    \/ \E f \in fetches, data \in CategoryData : FetchDataArrive(f, data)
    \/ \E category \in {"all"} \cup Range(crimeCategories) : SelectCategory(category)

SpecCategories == Init /\ [][NextCategories]_vars

\* C30: once crimeCategories holds a list that is not empty, no step
\* replaces it.
C30_CategoriesSetOnce ==
    [][ crimeCategories # <<>> => crimeCategories' = crimeCategories ]_vars

\* What holds instead: a call of fetchData that started when the list was
\* not empty leaves the list as it is, and one that started when the list
\* was empty stores what it received.
CategoriesSetByEarlyCalls ==
    [][ \A f \in fetches, data \in CategoryData :
          FetchDataArrive(f, data) =>
              crimeCategories' =
                  IF f.categories = 0 THEN data.categories ELSE crimeCategories ]_vars

\* A list that was not empty has been replaced while a call made after the
\* first list arrived is still in flight.
CategoriesReplaced ==
    /\ crimeCategories = LaterCategories
    /\ \E f \in fetches : f.categories = Len(Categories)

=============================================================================
